---------------------------- MODULE Spec2Model ----------------------------
(***************************************************************************)
(* A model of the reference-counting, callback and lock primitives of      *)
(* mini_chromium (winbase / crbase).                                       *)
(*                                                                         *)
(*   SpecRef   scoped_refptr handles over RefCounted payloads              *)
(*   SpecTS    threads racing on a RefCountedThreadSafe count              *)
(*   SpecLock  threads calling Acquire / Try / Release on one Lock         *)
(*   SpecCb    callback handles (once / repeating) over bind states        *)
(*   SpecBound callbacks bound to chosen values and cancellation predicates*)
(*   SpecFile  FileProxy operations, their helpers and reply callbacks     *)
(*   SpecFwd   an argument bound into a callback and forwarded by Run      *)
(*   SpecRaw   AddRef / Release called directly, from several sequences    *)
(*   SpecRec   both Lock classes, whose holder may call Acquire / Try      *)
(*   SpecAuto  AutoLock and AutoUnlock scopes of several threads           *)
(*   SpecLockFair  SpecLock under fair scheduling                          *)
(*   SpecSeq   threads drawing numbers from one AtomicSequenceNumber       *)
(*   SpecObs   one ObserverList changed during notification passes        *)
(*   SpecIter  one ObserverList and iterators handled one by one           *)
(*   SpecTtrh  overrides of one thread's ThreadTaskRunnerHandle            *)
(*   SpecTls   ThreadTaskRunnerHandle objects and the thread-local pointer *)
(*   SpecInit  File objects constructed and initialized with chosen paths  *)
(***************************************************************************)
EXTENDS Integers, Sequences, FiniteSets, TLC

\* ---------------------------------------------------------------- bounds
NObj == 2          \* RefCounted payloads that can be allocated
NHandles == 3      \* scoped_refptr handle slots
NThreads == 3      \* threads of SpecTS and SpecLock
MaxHeld == 2       \* references one thread of SpecTS may hold at a time
NOnce == 2         \* single-invocation callback handles
NRep == 2          \* repeatable callback handles
MaxRuns == 2       \* executions of one bind state that are counted
MaxOps == 2        \* FileProxy operations a caller issues
MaxRawCount == 2   \* the count direct AddRef calls may take a payload to
MaxDepth == 2      \* nested acquisitions of one Lock by its holder
MaxNest == 2       \* AutoLock / AutoUnlock scopes a thread nests
MaxCalls == 4      \* GetNext() calls made on the sequence number
NObservers == 2    \* observers that can be added to the ObserverList
MaxSize == 3       \* length the vector observers_ may grow to
MaxOverrides == 3  \* OverrideForTesting closures outstanding at a time
MaxScoped == 2     \* ScopedClosureRunners the threads of SpecTls keep
MaxPathLen == 2    \* components of a FilePath given to File::Initialize

\* RefCountedBase::ref_count_ is a uint32_t.  A count is kept as the
\* two's-complement reading of its 32 bits (0xFFFFFFFF is -1), so that
\* ++ and -- wrap as the unsigned field does.
MaxInt32 == 2147483647
Inc32(c) == IF c = MaxInt32 THEN (-MaxInt32) - 1 ELSE c + 1
Dec32(c) == IF c = (-MaxInt32) - 1 THEN MaxInt32 ELSE c - 1

Null == 0

Obj == 1..NObj
Handles == 1..NHandles
Threads == 1..NThreads
\* two bind states: one for a handle to hold and one to assign over it
Binds == {1, 2}
\* callback handles: the single-invocation ones, then the repeatable ones
OnceH == 1..NOnce
RepH == (NOnce + 1)..(NOnce + NRep)
CbHandles == OnceH \cup RepH

VARIABLES
  \* ---- SpecRef: RefCounted payloads and scoped_refptr handles
  ref_count_,      \* [Obj -> uint32]  RefCountedBase::ref_count_
  obj_state,       \* [Obj -> {"unborn","fresh","owned","destroyed"}]
  obj_tag,         \* [Obj -> {"none","FromZero","FromOne"}] policy tag
  destructs,       \* [Obj -> Nat] invocations of Traits::Destruct
  ptr_,            \* [Handles -> Obj \cup {Null}]  scoped_refptr::ptr_
  \* ---- SpecObs: one ObserverList
  ol_policy,       \* ObserverList::policy_
  observers_,      \* ObserverList::observers_, Null for a nulled slot
  live_iterator_count_, \* ObserverList::live_iterator_count_
  ol_it,           \* [IterIds -> Iter object or NoIter]
  ol_pass,         \* the range-for loops in progress, innermost last
  \* ---- SpecTtrh: the ThreadTaskRunnerHandle of one thread
  task_runner_,    \* ThreadTaskRunnerHandle::task_runner_
  tt_closures,     \* the ScopedClosureRunners not yet run, oldest first
  tt_fatal,        \* the DCHECK_EQ of a restore closure has failed
  tt_lifo,         \* every closure run so far was the youngest one
  \* ---- SpecTls: the handles and the thread-local pointer of each thread
  thread_task_runner_tls, \* [TlThreads -> handle the pointer holds, or Null]
  tl_handles,      \* [TtrhIds -> the handle object, or NoTtrh]
  tl_closures,     \* [TlThreads -> the ScopedClosureRunners not yet run]
  tl_fatal,        \* a CHECK or DCHECK has failed
  tl_crashed,      \* a null ThreadTaskRunnerHandle* was dereferenced
  tl_last,         \* the last call completed, its thread, and what Get() answered
  \* ---- SpecInit: one File object
  fi_file_,        \* File::file_: "invalid" or "open"
  fi_error_details_, \* File::error_details_
  fi_tracing_path_,  \* File::tracing_path_, NoValue while empty
  fi_last_error,   \* the thread's last-error code as Initialize left it
  fi_do_initialize, \* the last call on the object went into DoInitialize
  fi_fatal,        \* the DCHECK of DoInitialize has failed
  fi_args,         \* the last call made on the object and its arguments
  \* ---- SpecSeq: one AtomicSequenceNumber
  seq_,            \* AtomicSequenceNumber::seq_
  sn_pc,           \* [Threads -> {"idle","called"}] inside GetNext() or not
  sn_ret,          \* [Threads -> what the thread's last GetNext() returned]
  sn_returned,     \* every value returned so far, in the order of return
  \* ---- SpecAuto: the scoped helpers of each thread
  al_scope,        \* [Threads -> Seq(helper)] live helpers, innermost last
  al_pc,           \* [Threads -> the helper call blocked in Acquire()]
  al_last,         \* [Threads -> the AutoLock destroyed last, or NoHelper]
  \* ---- SpecRec: a Lock of either namespace
  lk_class,        \* "crbase" or "winbase": the Lock class of the lock
  lk_depth,        \* recursion count of the OS primitive under lock_
  owning_thread_ref_, \* crbase::Lock::owning_thread_ref_ (DCHECK builds)
  lk_fatal,        \* a DCHECK of Lock has failed
  \* ---- SpecRaw: what direct calls of AddRef / Release leave behind
  ref_fatal,       \* a DCHECK of RefCountedBase has failed
  ref_last_seq,    \* [Obj -> sequence] where the count was last updated
  \* ---- SpecTS: one RefCountedThreadSafe payload shared by threads
  ts_ref_count,    \* RefCountedThreadSafeBase::ref_count_ (AtomicRefCount)
  ts_held,         \* [Threads -> Nat] references each thread holds
  ts_pc,           \* [Threads -> {"idle","released"}] position in Release()
  ts_ret,          \* [Threads -> BOOLEAN] what the thread's Release() returned
  ts_true_returns, \* Release() calls that have returned true
  ts_destructs,    \* invocations of Traits::Destruct
  \* ---- SpecLock: one Lock and the threads that use it
  lock_owner,      \* LockImpl's native lock: Null, or the thread that has it
  lk_pc,           \* [Threads -> {"out","blocked","in"}]
  try_rv,          \* [Threads -> {"none","true","false"}] the last Try()
  \* ---- SpecCb: bind states and the callback handles that reference them
  bs_ref_count,    \* [Binds -> Nat] the bind state's (thread-safe) count
  bs_state,        \* [Binds -> {"unbound","live","destroyed"}]
  bs_origin,       \* [Binds -> {"none","once","repeating"}] how it was bound
  bs_destructor_,  \* [Binds -> thunk] BindStateBase::destructor_
  bs_destroyed_by, \* [Binds -> thunk] what destroyed it (NoThunk: nothing)
  bs_destructs,    \* [Binds -> Nat] times it was destroyed
  bs_runs,         \* [Binds -> 0..MaxRuns] executions of the bound function
  bind_state_,     \* [CbHandles -> Binds \cup {Null}] CallbackBase::bind_state_
  bs_functor_,     \* [Binds -> value] the function and arguments captured
  bs_is_cancelled_,\* [Binds -> predicate] BindStateBase::is_cancelled_
  bs_invalidated,  \* [Binds -> BOOLEAN] the bound weak receiver is gone
  is_cancelled_rv, \* what the last IsCancelled() returned
  \* ---- the build
  dcheck_is_on,    \* BOOLEAN: DCHECKs are compiled in
  \* ---- SpecFile: one FileProxy, the helper of the operation in flight
  fp_alive,        \* the FileProxy exists
  fp_file_,        \* FileProxy::file_: "invalid" or "open"
  fp_calls,        \* operations issued so far
  fp_rv,           \* what the last operation returned: "none", "true", "false"
  hp_op,           \* the operation whose helper is in flight, or "none"
  hp_pc,           \* "none", "posted", "worked", "done", "fatal", "crashed"
  hp_file_,        \* FileHelper::file_
  hp_error_,       \* FileHelper::error_
  hp_callback,     \* the bind state of the callback bound into the reply
  cb_runs,         \* runs of a caller's (non-null) callback
  cb_arg,          \* the error the last such run received
  cb_saw,          \* the proxy's file_ as that run found it, "gone" without a proxy
  null_runs,       \* calls of Run on a null callback
  deleter_posts,   \* FileDeleter tasks posted
  \* ---- SpecFwd: one bound argument and one run-time argument of a callback
  fw_type,         \* the type of the bound argument, "none" before the bind
  fw_orig,         \* the caller's variable that was bound
  fw_bound,        \* the value that variable had when it was bound
  fw_stored,       \* the bind state's storage of the argument
  fw_received,     \* what the target function got as the bound argument
  fw_runs,         \* runs of the callback
  fw_arg_type,     \* the type of the argument given to the last Run
  fw_arg,          \* the caller's variable given to the last Run, afterwards
  fw_arg_received  \* what the target function got as that argument

refVars == <<ref_count_, obj_state, obj_tag, destructs, ptr_>>
tsVars == <<ts_ref_count, ts_held, ts_pc, ts_ret, ts_true_returns, ts_destructs>>
lockVars == <<lock_owner, lk_pc, try_rv>>
bsVars == <<bs_ref_count, bs_state, bs_origin, bs_destructor_, bs_destroyed_by,
            bs_destructs, bs_runs>>
bqVars == <<bs_functor_, bs_is_cancelled_, bs_invalidated, is_cancelled_rv>>
cbVars == <<bsVars, bind_state_, bqVars>>

fileVars == <<fp_alive, fp_file_, fp_calls, fp_rv, hp_op, hp_pc, hp_file_,
              hp_error_, hp_callback, cb_runs, cb_arg, cb_saw, null_runs, deleter_posts>>

rawVars == <<ref_fatal, ref_last_seq>>
autoVars == <<al_scope, al_pc, al_last>>
seqVars == <<seq_, sn_pc, sn_ret, sn_returned>>
ttVars == <<task_runner_, tt_closures, tt_fatal, tt_lifo>>
fiVars == <<fi_file_, fi_error_details_, fi_tracing_path_, fi_last_error,
            fi_do_initialize, fi_fatal, fi_args>>
tlVars == <<thread_task_runner_tls, tl_handles, tl_closures, tl_fatal,
            tl_crashed, tl_last>>
obsVars == <<observers_, live_iterator_count_, ol_it, ol_pass>>
recVars == <<lk_depth, owning_thread_ref_, lk_fatal>>
fwdVars == <<fw_type, fw_orig, fw_bound, fw_stored, fw_received, fw_runs,
             fw_arg_type, fw_arg, fw_arg_received>>

vars == <<refVars, tsVars, lockVars, cbVars, fileVars, fwdVars, rawVars, recVars, autoVars, seqVars, obsVars, ttVars, tlVars, fiVars, dcheck_is_on, lk_class, ol_policy>>

\* what the actions of one part of the model leave alone
exceptRef == <<tsVars, lockVars, cbVars, fileVars, fwdVars, rawVars, recVars, autoVars, seqVars, obsVars, ttVars, tlVars, fiVars, dcheck_is_on, lk_class, ol_policy>>
exceptTS == <<refVars, lockVars, cbVars, fileVars, fwdVars, rawVars, recVars, autoVars, seqVars, obsVars, ttVars, tlVars, fiVars, dcheck_is_on, lk_class, ol_policy>>
exceptLock == <<refVars, tsVars, cbVars, fileVars, fwdVars, rawVars, recVars, autoVars, seqVars, obsVars, ttVars, tlVars, fiVars, dcheck_is_on, lk_class, ol_policy>>
exceptCb == <<refVars, tsVars, lockVars, fileVars, fwdVars, rawVars, recVars, autoVars, seqVars, obsVars, ttVars, tlVars, fiVars, dcheck_is_on, lk_class, ol_policy>>
exceptFile == <<refVars, tsVars, lockVars, cbVars, fwdVars, rawVars, recVars, autoVars, seqVars, obsVars, ttVars, tlVars, fiVars, dcheck_is_on, lk_class, ol_policy>>
exceptFwd == <<refVars, tsVars, lockVars, cbVars, fileVars, rawVars, recVars, autoVars, seqVars, obsVars, ttVars, tlVars, fiVars, dcheck_is_on, lk_class, ol_policy>>
exceptRaw == <<tsVars, lockVars, cbVars, fileVars, fwdVars, recVars, autoVars, seqVars, obsVars, ttVars, tlVars, fiVars, dcheck_is_on, lk_class, ol_policy>>
exceptAuto == <<refVars, tsVars, cbVars, fileVars, fwdVars, rawVars, recVars, seqVars, obsVars, ttVars, tlVars, fiVars, dcheck_is_on, lk_class, ol_policy>>
exceptSeq == <<refVars, tsVars, lockVars, cbVars, fileVars, fwdVars, rawVars, recVars, autoVars, obsVars, ttVars, tlVars, fiVars, dcheck_is_on, lk_class, ol_policy>>
exceptObs == <<refVars, tsVars, lockVars, cbVars, fileVars, fwdVars, rawVars, recVars, autoVars, seqVars, ttVars, tlVars, fiVars, dcheck_is_on, lk_class, ol_policy>>
exceptTt == <<refVars, tsVars, lockVars, cbVars, fileVars, fwdVars, rawVars, recVars, autoVars, seqVars, obsVars, tlVars, fiVars, dcheck_is_on, lk_class, ol_policy>>
exceptRec == <<refVars, tsVars, cbVars, fileVars, fwdVars, rawVars, autoVars, seqVars, obsVars, ttVars, tlVars, fiVars, dcheck_is_on, lk_class, ol_policy>>
exceptTl == <<refVars, tsVars, lockVars, cbVars, fileVars, fwdVars, rawVars, recVars, autoVars, seqVars, obsVars, ttVars, fiVars, dcheck_is_on, lk_class, ol_policy>>
exceptFi == <<refVars, tsVars, lockVars, cbVars, fileVars, fwdVars, rawVars, recVars, autoVars, seqVars, obsVars, ttVars, tlVars, dcheck_is_on, lk_class, ol_policy>>

\* ------------------------------------------------ RefCountedBase (code)

\* a constructor that ignores the start-from-one tag
RefCountedBase_ctor_IgnoresTag(tag) == 0

\* RefCountedBase(StartRefCountFromZeroTag) / (StartRefCountFromOneTag)
RefCountedBase_ctor(tag) == IF tag = "FromOne" THEN 1 ELSE 0

\* an AddRef that forgets the increment
RefCountedBase_AddRef_NoIncrement(c) == c

\* RefCountedBase::AddRef -> AddRefImpl: ++ref_count_
RefCountedBase_AddRef(c) == Inc32(c)

\* a Release that reports "self-delete" one reference too early
RefCountedBase_Release_OffByOne(c) ==
  [count |-> Dec32(c), ret |-> (Dec32(c) <= 1)]

\* RefCountedBase::Release: --ref_count_; return ref_count_ == 0
RefCountedBase_Release(c) ==
  [count |-> Dec32(c), ret |-> (Dec32(c) = 0)]

\* RefCountedBase::HasOneRef
RefCountedBase_HasOneRef(c) == c = 1

\* The payloads as one value, so that the calls of one handler compose.
RefHeap == [rc |-> ref_count_, st |-> obj_state, ds |-> destructs]

\* DefaultRefCountedTraits::Destruct -> DeleteInternal: delete x
DefaultRefCountedTraits_Destruct(hp, o) ==
  [hp EXCEPT !.st[o] = "destroyed", !.ds[o] = @ + 1]

\* RefCounted::AddRef
RefCounted_AddRef(hp, o) == [hp EXCEPT !.rc[o] = RefCountedBase_AddRef(@)]

\* RefCounted::Release: if (RefCountedBase::Release()) Traits::Destruct(this)
RefCounted_Release(hp, o) ==
  LET r  == RefCountedBase_Release(hp.rc[o])
      h1 == [hp EXCEPT !.rc[o] = r.count]
  IN IF r.ret THEN DefaultRefCountedTraits_Destruct(h1, o) ELSE h1

\* ------------------------------------------- scoped_refptr (from the spec)

\* the reference a handle gives up when it is reset, destroyed or assigned over
ReleaseIfSet(hp, p) == IF p = Null THEN hp ELSE RefCounted_Release(hp, p)
\* the reference a handle takes when it copies a pointer
AddRefIfSet(hp, p) == IF p = Null THEN hp ELSE RefCounted_AddRef(hp, p)

SetHeap(hp) ==
  /\ ref_count_' = hp.rc
  /\ obj_state' = hp.st
  /\ destructs' = hp.ds

\* the payloads are allocated in order
NextObj == IF \E o \in Obj : obj_state[o] = "unborn"
           THEN CHOOSE o \in Obj : obj_state[o] = "unborn" /\
                                   \A q \in Obj : q < o => obj_state[q] # "unborn"
           ELSE Null

\* new T: the RefCounted constructor runs with T::kRefCountPreference
New(tag) ==
  /\ NextObj # Null
  /\ ref_count_' = [ref_count_ EXCEPT ![NextObj] = RefCountedBase_ctor(tag)]
  /\ obj_state' = [obj_state EXCEPT ![NextObj] = "fresh"]
  /\ obj_tag' = [obj_tag EXCEPT ![NextObj] = tag]
  /\ UNCHANGED <<destructs, ptr_>>
  /\ UNCHANGED exceptRef

\* scoped_refptr(T* p): the first handle of a start-from-zero payload
Wrap(h, o) ==
  /\ ptr_[h] = Null
  /\ obj_state[o] = "fresh" /\ obj_tag[o] = "FromZero"
  /\ SetHeap([RefCounted_AddRef(RefHeap, o) EXCEPT !.st[o] = "owned"])
  /\ ptr_' = [ptr_ EXCEPT ![h] = o]
  /\ UNCHANGED obj_tag
  /\ UNCHANGED exceptRef

\* AdoptRef(T* p): the first handle of a start-from-one payload, no increment
AdoptRef(h, o) ==
  /\ ptr_[h] = Null
  /\ obj_state[o] = "fresh" /\ obj_tag[o] = "FromOne"
  /\ obj_state' = [obj_state EXCEPT ![o] = "owned"]
  /\ ptr_' = [ptr_ EXCEPT ![h] = o]
  /\ UNCHANGED <<ref_count_, obj_tag, destructs>>
  /\ UNCHANGED exceptRef

\* dst = src (copy construction when dst is null): take a reference on the
\* source's payload, alias it, give up the reference dst held
Copy(src, dst) ==
  /\ src # dst
  /\ SetHeap(ReleaseIfSet(AddRefIfSet(RefHeap, ptr_[src]), ptr_[dst]))
  /\ ptr_' = [ptr_ EXCEPT ![dst] = ptr_[src]]
  /\ UNCHANGED obj_tag
  /\ UNCHANGED exceptRef

\* dst = std::move(src): transfer the pointer, null the source, give up the
\* reference dst held
Move(src, dst) ==
  /\ src # dst
  /\ SetHeap(ReleaseIfSet(RefHeap, ptr_[dst]))
  /\ ptr_' = [ptr_ EXCEPT ![dst] = ptr_[src], ![src] = Null]
  /\ UNCHANGED obj_tag
  /\ UNCHANGED exceptRef

\* h.reset() / ~scoped_refptr
Reset(h) ==
  /\ ptr_[h] # Null
  /\ SetHeap(ReleaseIfSet(RefHeap, ptr_[h]))
  /\ ptr_' = [ptr_ EXCEPT ![h] = Null]
  /\ UNCHANGED obj_tag
  /\ UNCHANGED exceptRef

InitRef ==
  /\ ref_count_ = [o \in Obj |-> 0]
  /\ obj_state = [o \in Obj |-> "unborn"]
  /\ obj_tag = [o \in Obj |-> "none"]
  /\ destructs = [o \in Obj |-> 0]
  /\ ptr_ = [h \in Handles |-> Null]

NextRef ==
  \/ \E tag \in {"FromZero", "FromOne"} : New(tag)
  \/ \E h \in Handles, o \in Obj : Wrap(h, o)
  \/ \E h \in Handles, o \in Obj : AdoptRef(h, o)
  \/ \E s \in Handles, d \in Handles : Copy(s, d)
  \/ \E s \in Handles, d \in Handles : Move(s, d)
  \/ \E h \in Handles : Reset(h)

\* ------------------------------------- RefCountedThreadSafeBase (code)

\* AtomicRefCount::Increment: one atomic fetch-add
AtomicRefCount_Increment(c) == c + 1

\* AtomicRefCount::Decrement: one atomic fetch-sub; true iff the count is
\* still non-zero afterwards
AtomicRefCount_Decrement(c) == [count |-> c - 1, nonzero |-> (c - 1 # 0)]

\* RefCountedThreadSafeBase::AddRefImpl
RefCountedThreadSafeBase_AddRefImpl(c) == AtomicRefCount_Increment(c)

\* a ReleaseImpl that lost the negation of Decrement()'s result
RefCountedThreadSafeBase_ReleaseImpl_Inverted(c) ==
  LET d == AtomicRefCount_Decrement(c) IN [count |-> d.count, ret |-> d.nonzero]

\* RefCountedThreadSafeBase::ReleaseImpl:
\*   if (!ref_count_.Decrement()) return true; return false;
RefCountedThreadSafeBase_ReleaseImpl(c) ==
  LET d == AtomicRefCount_Decrement(c) IN [count |-> d.count, ret |-> ~d.nonzero]

\* RefCountedThreadSafe::AddRef, by a thread t that holds a reference; the
\* new reference is handed to thread u (u = t: kept)
TS_AddRef(t, u) ==
  /\ ts_pc[t] = "idle" /\ ts_held[t] >= 1
  /\ ts_held[u] < MaxHeld
  /\ ts_ref_count' = RefCountedThreadSafeBase_AddRefImpl(ts_ref_count)
  /\ ts_held' = [ts_held EXCEPT ![u] = @ + 1]
  /\ UNCHANGED <<ts_pc, ts_ret, ts_true_returns, ts_destructs>>
  /\ UNCHANGED exceptTS

\* RefCountedThreadSafe::Release, first half: the atomic decrement inside
\* RefCountedThreadSafeBase::Release()
TS_ReleaseDecrement(t) ==
  /\ ts_pc[t] = "idle" /\ ts_held[t] >= 1
  /\ LET r == RefCountedThreadSafeBase_ReleaseImpl(ts_ref_count) IN
       /\ ts_ref_count' = r.count
       /\ ts_ret' = [ts_ret EXCEPT ![t] = r.ret]
       /\ ts_true_returns' = ts_true_returns + (IF r.ret THEN 1 ELSE 0)
  /\ ts_held' = [ts_held EXCEPT ![t] = @ - 1]
  /\ ts_pc' = [ts_pc EXCEPT ![t] = "released"]
  /\ UNCHANGED ts_destructs
  /\ UNCHANGED exceptTS

\* RefCountedThreadSafe::Release, second half: Traits::Destruct(this) when
\* the base's Release() returned true
TS_ReleaseFinish(t) ==
  /\ ts_pc[t] = "released"
  /\ ts_destructs' = ts_destructs + (IF ts_ret[t] THEN 1 ELSE 0)
  /\ ts_pc' = [ts_pc EXCEPT ![t] = "idle"]
  /\ UNCHANGED <<ts_ref_count, ts_held, ts_ret, ts_true_returns>>
  /\ UNCHANGED exceptTS

\* the payload has its first handle (count 1), held by thread 1
InitTS ==
  /\ ts_ref_count = 1
  /\ ts_held = [t \in Threads |-> IF t = 1 THEN 1 ELSE 0]
  /\ ts_pc = [t \in Threads |-> "idle"]
  /\ ts_ret = [t \in Threads |-> FALSE]
  /\ ts_true_returns = 0
  /\ ts_destructs = 0

NextTS ==
  \/ \E t \in Threads, u \in Threads : TS_AddRef(t, u)
  \/ \E t \in Threads : TS_ReleaseDecrement(t)
  \/ \E t \in Threads : TS_ReleaseFinish(t)

\* ------------------------------------------------------------------ Lock

\* LockImpl::Try: if the lock is not held, take it and return true; if it is
\* held by something else, immediately return false
LockImpl_Try(owner, t) ==
  IF owner = Null THEN [owner |-> t, rv |-> TRUE]
                  ELSE [owner |-> owner, rv |-> FALSE]

\* LockImpl::Lock: take the lock, blocking until it is available
LockImpl_LockAvailable(owner) == owner = Null
LockImpl_Lock(owner, t) == t

\* LockImpl::Unlock: release the lock
LockImpl_Unlock(owner, t) == Null

\* a Try() that reports success whatever lock_.Try() said
Lock_Try_AlwaysTrue(owner, t) == [owner |-> t, rv |-> TRUE]

\* Lock::Try: return lock_.Try()
Lock_Try(owner, t) == LockImpl_Try(owner, t)

\* an Acquire() that returns without waiting for lock_.Lock()
Lock_AcquireMayReturn_NoWait(owner) == TRUE

\* Lock::Acquire: lock_.Lock(); the call returns once the lock is available
Lock_AcquireMayReturn(owner) == LockImpl_LockAvailable(owner)

\* Lock::Release: lock_.Unlock()
Lock_Release(owner, t) == LockImpl_Unlock(owner, t)

\* a thread outside the critical section calls Acquire() and blocks in it
AcquireCall(t) ==
  /\ lk_pc[t] = "out"
  /\ lk_pc' = [lk_pc EXCEPT ![t] = "blocked"]
  /\ try_rv' = [try_rv EXCEPT ![t] = "none"]
  /\ UNCHANGED lock_owner
  /\ UNCHANGED exceptLock

\* Acquire() returns: the thread has the lock
\* an Acquire() that gives up waiting and returns without the lock
AcquireReturn_TimesOut(t) ==
  /\ lk_pc[t] = "blocked"
  /\ lk_pc' = [lk_pc EXCEPT ![t] = "out"]
  /\ UNCHANGED <<lock_owner, try_rv>>
  /\ UNCHANGED exceptLock

AcquireReturn(t) ==
  /\ lk_pc[t] = "blocked"
  /\ Lock_AcquireMayReturn(lock_owner)
  /\ lock_owner' = LockImpl_Lock(lock_owner, t)
  /\ lk_pc' = [lk_pc EXCEPT ![t] = "in"]
  /\ UNCHANGED try_rv
  /\ UNCHANGED exceptLock

\* a thread outside the critical section calls Try()
TryCall(t) ==
  /\ lk_pc[t] = "out"
  /\ LET r == Lock_Try(lock_owner, t) IN
       /\ lock_owner' = r.owner
       /\ try_rv' = [try_rv EXCEPT ![t] = IF r.rv THEN "true" ELSE "false"]
       /\ lk_pc' = [lk_pc EXCEPT ![t] = IF r.rv THEN "in" ELSE "out"]
  /\ UNCHANGED exceptLock

\* the thread inside the critical section calls Release()
ReleaseCall(t) ==
  /\ lk_pc[t] = "in"
  /\ lock_owner' = Lock_Release(lock_owner, t)
  /\ lk_pc' = [lk_pc EXCEPT ![t] = "out"]
  /\ UNCHANGED try_rv
  /\ UNCHANGED exceptLock

InitLock ==
  /\ lock_owner = Null
  /\ lk_pc = [t \in Threads |-> "out"]
  /\ try_rv = [t \in Threads |-> "none"]

NextLock ==
  \/ \E t \in Threads : AcquireCall(t)
  \/ \E t \in Threads : AcquireReturn(t)
  \/ \E t \in Threads : TryCall(t)
  \/ \E t \in Threads : ReleaseCall(t)

\* --------------------------------------------------- BindStateBase (code)

\* thunks: the Destroy thunk of bind state b's concrete type is b itself;
\* PlainDelete stands for a delete through the base class
NoThunk == <<"none", Null>>
PlainDelete == <<"delete", Null>>
DestroyThunk(b) == <<"Destroy", b>>

\* cancellation predicates: bool (*)(const BindStateBase*)
NoPredicate == "none"
ReturnFalsePtr == "ReturnFalse"
QueryCancellationTraitsPtr == "QueryCancellationTraits"

\* the functions and argument values a bind can capture
BoundValues == {"f(1)", "f(2)", "weak->m(1)"}
DefaultBound == "f(1)"
\* a method bound to a weak receiver is cancellable
HasWeakReceiver(fn) == fn = "weak->m(1)"

\* ReturnFalse(const BindStateBase*)
ReturnFalse(b) == FALSE

\* QueryCancellationTraits: true once the bound weak receiver is gone
QueryCancellationTraits(b) == bs_invalidated[b]

\* BindStateBase(polymorphic_invoke, destructor, is_cancelled)
BindStateBase_ctor3(destructor, is_cancelled) ==
  [destructor_ |-> destructor, is_cancelled_ |-> is_cancelled]

\* a two-argument constructor that installs the weak-receiver predicate
BindStateBase_ctor2_WrongDefault(destructor) ==
  BindStateBase_ctor3(destructor, QueryCancellationTraitsPtr)

\* BindStateBase(polymorphic_invoke, destructor)
\*   : BindStateBase(polymorphic_invoke, destructor, &ReturnFalse)
BindStateBase_ctor2(destructor) ==
  BindStateBase_ctor3(destructor, ReturnFalsePtr)

\* BindStateBase::IsCancelled: is_cancelled_(this)
BindStateBase_IsCancelled(b) ==
  IF bs_is_cancelled_[b] = QueryCancellationTraitsPtr
  THEN QueryCancellationTraits(b)
  ELSE ReturnFalse(b)

BsHeap == [rc |-> bs_ref_count, st |-> bs_state, ds |-> bs_destructs,
           by |-> bs_destroyed_by, dtor |-> bs_destructor_]

\* a Destruct that deletes through the base class instead of the thunk
BindStateBaseRefCountTraits_Destruct_PlainDelete(hp, b) ==
  [hp EXCEPT !.st[b] = "destroyed", !.ds[b] = @ + 1, !.by[b] = PlainDelete]

\* BindStateBaseRefCountTraits::Destruct: bind_state->destructor_(bind_state)
BindStateBaseRefCountTraits_Destruct(hp, b) ==
  [hp EXCEPT !.st[b] = "destroyed", !.ds[b] = @ + 1, !.by[b] = hp.dtor[b]]

\* RefCountedThreadSafe<BindStateBase, ...>::AddRef
BindState_AddRef(hp, b) ==
  [hp EXCEPT !.rc[b] = RefCountedThreadSafeBase_AddRefImpl(@)]

\* RefCountedThreadSafe<BindStateBase, ...>::Release
BindState_Release(hp, b) ==
  LET r  == RefCountedThreadSafeBase_ReleaseImpl(hp.rc[b])
      h1 == [hp EXCEPT !.rc[b] = r.count]
  IN IF r.ret THEN BindStateBaseRefCountTraits_Destruct(h1, b) ELSE h1

\* scoped_refptr<BindStateBase>: the reference a handle takes / gives up
BsAddRefIfSet(hp, p) == IF p = Null THEN hp ELSE BindState_AddRef(hp, p)
BsReleaseIfSet(hp, p) == IF p = Null THEN hp ELSE BindState_Release(hp, p)

\* scoped_refptr<BindStateBase>::operator=(const scoped_refptr&): reference
\* the source's pointer, then give up the destination's old reference
RefPtr_CopyAssign(hp, srcp, dstp) ==
  [hp |-> BsReleaseIfSet(BsAddRefIfSet(hp, srcp), dstp), src |-> srcp, dst |-> srcp]

\* scoped_refptr<BindStateBase>::operator=(scoped_refptr&&): take over the
\* source's pointer, null the source, give up the destination's old reference
RefPtr_MoveAssign(hp, srcp, dstp) ==
  [hp |-> BsReleaseIfSet(hp, dstp), src |-> Null, dst |-> srcp]

\* scoped_refptr<BindStateBase>::operator=(nullptr)
RefPtr_Clear(hp, p) == [hp |-> BsReleaseIfSet(hp, p), dst |-> Null]

\* ------------------------------------------------------ CallbackBase (code)

\* a move assignment that leaves the source as it was (a copy)
CallbackBase_MoveAssign_KeepsSource(hp, srcp, dstp) ==
  RefPtr_CopyAssign(hp, srcp, dstp)

\* CallbackBase& CallbackBase::operator=(CallbackBase&&) = default
CallbackBase_MoveAssign(hp, srcp, dstp) == RefPtr_MoveAssign(hp, srcp, dstp)

\* CallbackBase::CallbackBase(const CallbackBaseCopyable& c)
\*   : bind_state_(c.bind_state_)
CallbackBase_CopyCtorFromCopyable(hp, srcp) ==
  [hp |-> BsAddRefIfSet(hp, srcp), src |-> srcp, dst |-> srcp]

\* CallbackBase::operator=(const CallbackBaseCopyable& c)
CallbackBase_CopyAssignFromCopyable(hp, srcp, dstp) ==
  RefPtr_CopyAssign(hp, srcp, dstp)

\* CallbackBase::CallbackBase(CallbackBaseCopyable&& c)
\*   : bind_state_(std::move(c.bind_state_))
CallbackBase_MoveCtorFromCopyable(hp, srcp) ==
  [hp |-> hp, src |-> Null, dst |-> srcp]

\* CallbackBase::operator=(CallbackBaseCopyable&& c)
CallbackBase_MoveAssignFromCopyable(hp, srcp, dstp) ==
  RefPtr_MoveAssign(hp, srcp, dstp)

\* an Equals that compares what the two bind states captured
CallbackBase_EqualsInternal_ByValue(p, q) ==
  IF p = Null \/ q = Null THEN p = q ELSE bs_functor_[p] = bs_functor_[q]

\* a Reset that leaves bind_state_ as it is
CallbackBase_Reset_Forgets(hp, p) == [hp |-> hp, dst |-> p]

\* CallbackBase::Reset: bind_state_ = nullptr
CallbackBase_Reset(hp, p) == RefPtr_Clear(hp, p)

\* CallbackBase::~CallbackBase() = default: bind_state_ is destroyed
CallbackBase_dtor(hp, p) == RefPtr_Clear(hp, p)

\* CallbackBase::EqualsInternal: bind_state_ == other.bind_state_
CallbackBase_EqualsInternal(p, q) == p = q

\* an is_null with the comparison inverted
CallbackBase_is_null_Inverted(p) == p # Null

\* CallbackBase::IsCancelled: bind_state_->IsCancelled()
CallbackBase_IsCancelled(p) == BindStateBase_IsCancelled(p)

\* CallbackBase::is_null
CallbackBase_is_null(p) == p = Null

\* a copy constructor that aliases the pointer without taking a reference
CallbackBaseCopyable_CopyCtor_NoAddRef(hp, srcp) ==
  [hp |-> hp, src |-> srcp, dst |-> srcp]

\* CallbackBaseCopyable::CallbackBaseCopyable(const CallbackBaseCopyable& c)
\*   { bind_state_ = c.bind_state_; }   (bind_state_ starts null)
CallbackBaseCopyable_CopyCtor(hp, srcp) == RefPtr_CopyAssign(hp, srcp, Null)

\* a copy assignment that takes two references on the source's bind state
CallbackBaseCopyable_CopyAssign_DoubleAddRef(hp, srcp, dstp) ==
  RefPtr_CopyAssign(BsAddRefIfSet(hp, srcp), srcp, dstp)

\* CallbackBaseCopyable::operator=(const CallbackBaseCopyable& c)
CallbackBaseCopyable_CopyAssign(hp, srcp, dstp) ==
  RefPtr_CopyAssign(hp, srcp, dstp)

\* CallbackBaseCopyable::operator=(CallbackBaseCopyable&&) = default
CallbackBaseCopyable_MoveAssign(hp, srcp, dstp) ==
  RefPtr_MoveAssign(hp, srcp, dstp)

SetBsHeap(hp) ==
  /\ bs_ref_count' = hp.rc
  /\ bs_state' = hp.st
  /\ bs_destructs' = hp.ds
  /\ bs_destroyed_by' = hp.by
  /\ bs_destructor_' = hp.dtor

\* what a two-handle operation leaves: the bind states, source and destination
ApplyPair(r, s, d) ==
  /\ SetBsHeap(r.hp)
  /\ bind_state_' = [bind_state_ EXCEPT ![s] = r.src, ![d] = r.dst]
  /\ UNCHANGED <<bs_origin, bs_runs>>
  /\ UNCHANGED bqVars
  /\ UNCHANGED exceptCb

\* what a one-handle operation leaves
ApplyOne(r, h) ==
  /\ SetBsHeap(r.hp)
  /\ bind_state_' = [bind_state_ EXCEPT ![h] = r.dst]
  /\ UNCHANGED <<bs_origin, bs_runs>>
  /\ UNCHANGED bqVars
  /\ UNCHANGED exceptCb

\* the bind states are allocated in order
NextBind == IF \E b \in Binds : bs_state[b] = "unbound"
            THEN CHOOSE b \in Binds : bs_state[b] = "unbound" /\
                                      \A q \in Binds : q < b => bs_state[q] # "unbound"
            ELSE Null

\* Bind: allocate a bind state that captures the function and arguments fn
\* (the BindStateBase constructor c stores the destructor thunk and the
\* cancellation predicate) and construct the first handle on it
BindWith(h, origin, fn, c) ==
  /\ bind_state_[h] = Null
  /\ NextBind # Null
  /\ bs_state' = [bs_state EXCEPT ![NextBind] = "live"]
  /\ bs_ref_count' = [bs_ref_count EXCEPT ![NextBind] = 1]
  /\ bs_destructor_' = [bs_destructor_ EXCEPT ![NextBind] = c.destructor_]
  /\ bs_is_cancelled_' = [bs_is_cancelled_ EXCEPT ![NextBind] = c.is_cancelled_]
  /\ bs_functor_' = [bs_functor_ EXCEPT ![NextBind] = fn]
  /\ bs_origin' = [bs_origin EXCEPT ![NextBind] = origin]
  /\ bind_state_' = [bind_state_ EXCEPT ![h] = NextBind]
  /\ UNCHANGED <<bs_destroyed_by, bs_destructs, bs_runs>>
  /\ UNCHANGED <<bs_invalidated, is_cancelled_rv>>
  /\ UNCHANGED exceptCb

\* Bind of a function with no weak receiver: the two-argument constructor
Bind(h, origin) ==
  BindWith(h, origin, DefaultBound, BindStateBase_ctor2(DestroyThunk(NextBind)))

\* BindOnce(...) into a new single-invocation handle
BindOnce(o) == o \in OnceH /\ Bind(o, "once")

\* BindRepeating(...) into a new repeatable handle
BindRepeating(r) == r \in RepH /\ Bind(r, "repeating")

\* d = std::move(s), both single-invocation
OnceMoveAssign(s, d) ==
  /\ s \in OnceH /\ d \in OnceH /\ s # d
  /\ ApplyPair(CallbackBase_MoveAssign(BsHeap, bind_state_[s], bind_state_[d]), s, d)

\* OnceCallback d(s), s repeatable
OnceCopyFromRepeating(s, d) ==
  /\ s \in RepH /\ d \in OnceH
  /\ bind_state_[d] = Null
  /\ ApplyPair(CallbackBase_CopyCtorFromCopyable(BsHeap, bind_state_[s]), s, d)

\* d = s, d single-invocation, s repeatable
OnceCopyAssignRepeating(s, d) ==
  /\ s \in RepH /\ d \in OnceH
  /\ ApplyPair(CallbackBase_CopyAssignFromCopyable(BsHeap, bind_state_[s], bind_state_[d]), s, d)

\* OnceCallback d(std::move(s)), s repeatable
OnceMoveFromRepeating(s, d) ==
  /\ s \in RepH /\ d \in OnceH
  /\ bind_state_[d] = Null
  /\ ApplyPair(CallbackBase_MoveCtorFromCopyable(BsHeap, bind_state_[s]), s, d)

\* d = std::move(s), d single-invocation, s repeatable
OnceMoveAssignRepeating(s, d) ==
  /\ s \in RepH /\ d \in OnceH
  /\ ApplyPair(CallbackBase_MoveAssignFromCopyable(BsHeap, bind_state_[s], bind_state_[d]), s, d)

\* RepeatingCallback d(s)
RepCopyCtor(s, d) ==
  /\ s \in RepH /\ d \in RepH /\ s # d
  /\ bind_state_[d] = Null
  /\ ApplyPair(CallbackBaseCopyable_CopyCtor(BsHeap, bind_state_[s]), s, d)

\* d = s, both repeatable
RepCopyAssign(s, d) ==
  /\ s \in RepH /\ d \in RepH /\ s # d
  /\ ApplyPair(CallbackBaseCopyable_CopyAssign(BsHeap, bind_state_[s], bind_state_[d]), s, d)

\* d = std::move(s), both repeatable
RepMoveAssign(s, d) ==
  /\ s \in RepH /\ d \in RepH /\ s # d
  /\ ApplyPair(CallbackBaseCopyable_MoveAssign(BsHeap, bind_state_[s], bind_state_[d]), s, d)

\* h.Reset()
CbReset(h) ==
  /\ bind_state_[h] # Null
  /\ ApplyOne(CallbackBase_Reset(BsHeap, bind_state_[h]), h)

\* the handle goes out of scope
CbDestroy(h) ==
  /\ bind_state_[h] # Null
  /\ ApplyOne(CallbackBase_dtor(BsHeap, bind_state_[h]), h)

CountRun(b) == [bs_runs EXCEPT ![b] = IF @ < MaxRuns THEN @ + 1 ELSE @]

\* std::move(o).Run(...) on a single-invocation handle: the bound function
\* is executed and the handle is reset
OnceRun(o) ==
  /\ o \in OnceH
  /\ ~CallbackBase_is_null(bind_state_[o])
  /\ bs_runs' = CountRun(bind_state_[o])
  /\ LET r == CallbackBase_Reset(BsHeap, bind_state_[o]) IN
       /\ SetBsHeap(r.hp)
       /\ bind_state_' = [bind_state_ EXCEPT ![o] = r.dst]
  /\ UNCHANGED bs_origin
  /\ UNCHANGED bqVars
  /\ UNCHANGED exceptCb

\* r.Run(...) on a repeatable handle: the bound function is executed
RepRun(r) ==
  /\ r \in RepH
  /\ ~CallbackBase_is_null(bind_state_[r])
  /\ bs_runs' = CountRun(bind_state_[r])
  /\ UNCHANGED <<bs_ref_count, bs_state, bs_origin, bs_destructor_,
                 bs_destroyed_by, bs_destructs, bind_state_>>
  /\ UNCHANGED bqVars
  /\ UNCHANGED exceptCb

InitCb ==
  /\ bs_ref_count = [b \in Binds |-> 0]
  /\ bs_state = [b \in Binds |-> "unbound"]
  /\ bs_origin = [b \in Binds |-> "none"]
  /\ bs_destructor_ = [b \in Binds |-> NoThunk]
  /\ bs_destroyed_by = [b \in Binds |-> NoThunk]
  /\ bs_destructs = [b \in Binds |-> 0]
  /\ bs_runs = [b \in Binds |-> 0]
  /\ bind_state_ = [h \in CbHandles |-> Null]
  /\ bs_functor_ = [b \in Binds |-> "none"]
  /\ bs_is_cancelled_ = [b \in Binds |-> NoPredicate]
  /\ bs_invalidated = [b \in Binds |-> FALSE]
  /\ is_cancelled_rv = "none"

NextCb ==
  \/ \E o \in OnceH : BindOnce(o)
  \/ \E r \in RepH : BindRepeating(r)
  \/ \E s \in OnceH, d \in OnceH : OnceMoveAssign(s, d)
  \/ \E s \in RepH, d \in OnceH : OnceCopyFromRepeating(s, d)
  \/ \E s \in RepH, d \in OnceH : OnceCopyAssignRepeating(s, d)
  \/ \E s \in RepH, d \in OnceH : OnceMoveFromRepeating(s, d)
  \/ \E s \in RepH, d \in OnceH : OnceMoveAssignRepeating(s, d)
  \/ \E s \in RepH, d \in RepH : RepCopyCtor(s, d)
  \/ \E s \in RepH, d \in RepH : RepCopyAssign(s, d)
  \/ \E s \in RepH, d \in RepH : RepMoveAssign(s, d)
  \/ \E h \in CbHandles : CbReset(h)
  \/ \E h \in CbHandles : CbDestroy(h)
  \/ \E o \in OnceH : OnceRun(o)
  \/ \E r \in RepH : RepRun(r)

\* ------------------------------------- bound values and cancellation

\* BindOnce(fn, ...) / BindRepeating(fn, ...): a method with a weak receiver
\* is bound through the three-argument constructor with the cancellation
\* query, anything else through the two-argument one
BindValue(h, fn) ==
  BindWith(h, IF h \in OnceH THEN "once" ELSE "repeating", fn,
           IF HasWeakReceiver(fn)
           THEN BindStateBase_ctor3(DestroyThunk(NextBind), QueryCancellationTraitsPtr)
           ELSE BindStateBase_ctor2(DestroyThunk(NextBind)))

\* an object the arguments bound into live bind state b point at (the
\* weak receiver, if it has one) is destroyed
Invalidate(b) ==
  /\ bs_state[b] = "live" /\ ~bs_invalidated[b]
  /\ bs_invalidated' = [bs_invalidated EXCEPT ![b] = TRUE]
  /\ UNCHANGED <<bsVars, bind_state_, bs_functor_, bs_is_cancelled_, is_cancelled_rv>>
  /\ UNCHANGED exceptCb

\* h.IsCancelled() on a non-null handle
IsCancelled(h) ==
  /\ bind_state_[h] # Null
  /\ is_cancelled_rv' = IF CallbackBase_IsCancelled(bind_state_[h])
                        THEN "true" ELSE "false"
  /\ UNCHANGED <<bsVars, bind_state_, bs_functor_, bs_is_cancelled_, bs_invalidated>>
  /\ UNCHANGED exceptCb

NextBound ==
  \/ \E h \in CbHandles, fn \in BoundValues : BindValue(h, fn)
  \/ \E b \in Binds : Invalidate(b)
  \/ \E h \in CbHandles : IsCancelled(h)
  \/ \E s \in RepH, d \in RepH : RepCopyCtor(s, d)
  \/ \E s \in OnceH, d \in OnceH : OnceMoveAssign(s, d)
  \/ \E h \in CbHandles : CbReset(h)

\* ------------------------------------------------------ FileProxy (code)

\* operations answered through GenericFileHelper
StatusOps == {"Close", "SetTimes", "SetLength", "Flush"}
\* operations that work on the proxy's open file
OpenFileOps == StatusOps \cup {"GetInfo", "Read", "Write"}
\* operations that open a file for a proxy that has none
CreateOps == {"CreateOrOpen", "CreateTemporary"}
FileOps == CreateOps \cup OpenFileOps

\* what a caller can pass as the callback: a null one, or one bound to a
\* function of the caller's (bind state 1)
CallerCallbacks == {Null, 1}

\* what the operating system makes of the helper's work
OsOutcomes == {"ok", "fail", "fail_late"}

\* the state a reply works on, so that the calls of one handler compose;
\* fatal: a DCHECK failed, crashed: the run of a null callback brought the
\* process down
FpState ==
  [fp_file_ |-> fp_file_, hp_file_ |-> hp_file_, deleter_posts |-> deleter_posts,
   cb_runs |-> cb_runs, cb_arg |-> cb_arg, cb_saw |-> cb_saw, null_runs |-> null_runs,
   fatal |-> FALSE, crashed |-> FALSE]

Stopped(st) == st.fatal \/ st.crashed

\* WINBASE_DCHECK(cond): fatal when DCHECKs are compiled in, nothing otherwise
WINBASE_DCHECK(st, cond) ==
  IF Stopped(st) THEN st
  ELSE IF dcheck_is_on /\ ~cond THEN [st EXCEPT !.fatal = TRUE] ELSE st

\* FileProxy::SetFile: DCHECK(!file_.IsValid()); file_ = std::move(file)
FileProxy_SetFile(st, file) ==
  LET s1 == WINBASE_DCHECK(st, st.fp_file_ = "invalid") IN
  IF Stopped(s1) THEN s1 ELSE [s1 EXCEPT !.fp_file_ = file]

\* a PassFile that does not test the weak pointer to the proxy
FileHelper_PassFile_NoWeakPtr(st) ==
  IF Stopped(st) THEN st
  ELSE [FileProxy_SetFile(st, st.hp_file_) EXCEPT !.hp_file_ = "invalid"]

\* FileHelper::PassFile: hand the file to the proxy if it still exists,
\* otherwise post a FileDeleter task for a valid file
FileHelper_PassFile(st) ==
  IF Stopped(st) THEN st
  ELSE IF fp_alive
       THEN [FileProxy_SetFile(st, st.hp_file_) EXCEPT !.hp_file_ = "invalid"]
       ELSE IF st.hp_file_ = "open"
            THEN [st EXCEPT !.deleter_posts = @ + 1, !.hp_file_ = "invalid"]
            ELSE st

\* std::move(callback).Run(error_, ...): runs the caller's function; on a
\* null callback it dereferences a null bind state, after which the process
\* may (ub) or may not have crashed
OnceCallback_Run(st, cb, err, ub) ==
  IF Stopped(st) THEN st
  ELSE IF cb = Null
       THEN [st EXCEPT !.null_runs = @ + 1, !.crashed = ub]
       ELSE [st EXCEPT !.cb_runs = @ + 1, !.cb_arg = err,
                     !.cb_saw = IF fp_alive THEN st.fp_file_ ELSE "gone"]

\* a GenericFileHelper::Reply without the is_null() test
GenericFileHelper_Reply_NoNullTest(st, cb, err, ub) ==
  OnceCallback_Run(FileHelper_PassFile(st), cb, err, ub)

\* GenericFileHelper::Reply:
\*   PassFile(); if (!callback.is_null()) std::move(callback).Run(error_)
GenericFileHelper_Reply(st, cb, err, ub) ==
  LET s1 == FileHelper_PassFile(st) IN
  IF ~CallbackBase_is_null(cb) THEN OnceCallback_Run(s1, cb, err, ub) ELSE s1

\* CreateOrOpenHelper::Reply:
\*   DCHECK(!callback.is_null()); PassFile(); std::move(callback).Run(error_)
CreateOrOpenHelper_Reply(st, cb, err, ub) ==
  OnceCallback_Run(
    FileHelper_PassFile(WINBASE_DCHECK(st, ~CallbackBase_is_null(cb))),
    cb, err, ub)

\* CreateTemporaryHelper::Reply: as CreateOrOpenHelper::Reply
CreateTemporaryHelper_Reply(st, cb, err, ub) ==
  OnceCallback_Run(
    FileHelper_PassFile(WINBASE_DCHECK(st, ~CallbackBase_is_null(cb))),
    cb, err, ub)

\* GetInfoHelper::Reply:
\*   PassFile(); DCHECK(!callback.is_null()); std::move(callback).Run(...)
GetInfoHelper_Reply(st, cb, err, ub) ==
  OnceCallback_Run(
    WINBASE_DCHECK(FileHelper_PassFile(st), ~CallbackBase_is_null(cb)),
    cb, err, ub)

\* a ReadHelper::Reply that runs the callback before it hands the file back
ReadHelper_Reply_RunFirst(st, cb, err, ub) ==
  FileHelper_PassFile(
    OnceCallback_Run(WINBASE_DCHECK(st, ~CallbackBase_is_null(cb)),
                     cb, err, ub))

\* ReadHelper::Reply: as GetInfoHelper::Reply
ReadHelper_Reply(st, cb, err, ub) ==
  OnceCallback_Run(
    WINBASE_DCHECK(FileHelper_PassFile(st), ~CallbackBase_is_null(cb)),
    cb, err, ub)

\* WriteHelper::Reply: as GenericFileHelper::Reply
WriteHelper_Reply(st, cb, err, ub) ==
  LET s1 == FileHelper_PassFile(st) IN
  IF ~CallbackBase_is_null(cb) THEN OnceCallback_Run(s1, cb, err, ub) ELSE s1

\* the Reply bound by the operation op
Helper_Reply(op, st, cb, err, ub) ==
  CASE op \in StatusOps -> GenericFileHelper_Reply(st, cb, err, ub)
    [] op = "CreateOrOpen" -> CreateOrOpenHelper_Reply(st, cb, err, ub)
    [] op = "CreateTemporary" -> CreateTemporaryHelper_Reply(st, cb, err, ub)
    [] op = "GetInfo" -> GetInfoHelper_Reply(st, cb, err, ub)
    [] op = "Read" -> ReadHelper_Reply(st, cb, err, ub)
    [] op = "Write" -> WriteHelper_Reply(st, cb, err, ub)

\* the work the operation op posted: what it leaves in file_ and error_
Helper_RunWork(op, file, err, os) ==
  CASE op = "CreateOrOpen" ->
         IF os = "ok" THEN [file_ |-> "open", error_ |-> "FILE_OK"]
                      ELSE [file_ |-> "invalid", error_ |-> "error_details"]
    [] op = "CreateTemporary" ->
         IF os = "fail" THEN [file_ |-> file, error_ |-> "FILE_ERROR_FAILED"]
         ELSE IF os = "ok" THEN [file_ |-> "open", error_ |-> "FILE_OK"]
         ELSE [file_ |-> "invalid", error_ |-> "error_details"]
    [] op = "Close" -> [file_ |-> "invalid", error_ |-> "FILE_OK"]
    [] op \in {"SetTimes", "Read", "Write"} ->
         [file_ |-> file,
          error_ |-> IF os = "ok" THEN "FILE_OK" ELSE "FILE_ERROR_FAILED"]
    [] op \in {"SetLength", "Flush", "GetInfo"} ->
         [file_ |-> file, error_ |-> IF os = "ok" THEN "FILE_OK" ELSE err]

FpIdle == fp_alive /\ hp_pc \in {"none", "done"} /\ fp_calls < MaxOps

\* the entry DCHECK of an operation failed: the process stops there
FpFatal ==
  /\ hp_pc' = "fatal"
  /\ fp_calls' = fp_calls + 1
  /\ UNCHANGED <<fp_alive, fp_file_, fp_rv, hp_op, hp_file_, hp_error_,
                 hp_callback, cb_runs, cb_arg, cb_saw, null_runs, deleter_posts>>
  /\ UNCHANGED exceptFile

\* the operation returns false before it has made a helper
FpRefuse ==
  /\ fp_rv' = "false"
  /\ fp_calls' = fp_calls + 1
  /\ UNCHANGED <<fp_alive, fp_file_, hp_op, hp_pc, hp_file_, hp_error_,
                 hp_callback, cb_runs, cb_arg, cb_saw, null_runs, deleter_posts>>
  /\ UNCHANGED exceptFile

\* new Helper(this, file) and PostTaskAndReply(work, reply bound to callback);
\* FileHelper's constructor sets error_ to FILE_ERROR_FAILED
FpPost(op, file, cb) ==
  /\ hp_op' = op
  /\ hp_pc' = "posted"
  /\ hp_file_' = file
  /\ hp_error_' = "FILE_ERROR_FAILED"
  /\ hp_callback' = cb
  /\ fp_rv' = "true"
  /\ fp_calls' = fp_calls + 1
  /\ UNCHANGED <<fp_alive, cb_runs, cb_arg, cb_saw, null_runs, deleter_posts>>
  /\ UNCHANGED exceptFile

\* FileProxy::CreateOrOpen / CreateTemporary:
\*   DCHECK(!file_.IsValid()); helper = new Helper(this, File()); post
FileProxy_Create(op, cb) ==
  /\ FpIdle
  /\ op \in CreateOps
  /\ IF WINBASE_DCHECK(FpState, fp_file_ = "invalid").fatal
     THEN FpFatal
     ELSE FpPost(op, "invalid", cb) /\ UNCHANGED fp_file_

\* FileProxy::Close / GetInfo / SetTimes / SetLength / Flush:
\*   DCHECK(file_.IsValid()); helper = new Helper(this, std::move(file_)); post
FileProxy_OnOpenFile(op, cb) ==
  /\ FpIdle
  /\ op \in OpenFileOps \ {"Read", "Write"}
  /\ IF WINBASE_DCHECK(FpState, fp_file_ = "open").fatal
     THEN FpFatal
     ELSE FpPost(op, fp_file_, cb) /\ fp_file_' = "invalid"

\* FileProxy::Read: DCHECK(file_.IsValid());
\*   if (bytes_to_read < 0) return false; helper ...; post
FileProxy_Read(bytes_to_read, cb) ==
  /\ FpIdle
  /\ IF WINBASE_DCHECK(FpState, fp_file_ = "open").fatal
     THEN FpFatal
     ELSE IF bytes_to_read < 0
          THEN FpRefuse
          ELSE FpPost("Read", fp_file_, cb) /\ fp_file_' = "invalid"

\* a Write that accepts bytes_to_write = 0
FileProxy_Write_AcceptsZero(buffer, bytes_to_write, cb) ==
  /\ FpIdle
  /\ IF WINBASE_DCHECK(FpState, fp_file_ = "open").fatal
     THEN FpFatal
     ELSE IF bytes_to_write < 0 \/ buffer = "nullptr"
          THEN FpRefuse
          ELSE FpPost("Write", fp_file_, cb) /\ fp_file_' = "invalid"

\* FileProxy::Write: DCHECK(file_.IsValid());
\*   if (bytes_to_write <= 0 || buffer == nullptr) return false; helper ...; post
FileProxy_Write(buffer, bytes_to_write, cb) ==
  /\ FpIdle
  /\ IF WINBASE_DCHECK(FpState, fp_file_ = "open").fatal
     THEN FpFatal
     ELSE IF bytes_to_write <= 0 \/ buffer = "nullptr"
          THEN FpRefuse
          ELSE FpPost("Write", fp_file_, cb) /\ fp_file_' = "invalid"

\* the task runner runs the posted work
RunWork(os) ==
  /\ hp_pc = "posted"
  /\ os = "fail_late" => hp_op = "CreateTemporary"
  /\ LET w == Helper_RunWork(hp_op, hp_file_, hp_error_, os) IN
       /\ hp_file_' = w.file_
       /\ hp_error_' = w.error_
  /\ hp_pc' = "worked"
  /\ UNCHANGED <<fp_alive, fp_file_, fp_calls, fp_rv, hp_op, hp_callback,
                 cb_runs, cb_arg, cb_saw, null_runs, deleter_posts>>
  /\ UNCHANGED exceptFile

\* the task runner runs the reply on the caller's sequence
Reply(ub) ==
  /\ hp_pc = "worked"
  /\ ub => (hp_callback = Null)
  /\ LET st == Helper_Reply(hp_op, FpState, hp_callback, hp_error_, ub) IN
       /\ fp_file_' = st.fp_file_
       /\ hp_file_' = st.hp_file_
       /\ deleter_posts' = st.deleter_posts
       /\ cb_runs' = st.cb_runs
       /\ cb_arg' = st.cb_arg
       /\ cb_saw' = st.cb_saw
       /\ null_runs' = st.null_runs
       /\ hp_pc' = IF st.fatal THEN "fatal"
                   ELSE IF st.crashed THEN "crashed" ELSE "done"
  /\ UNCHANGED <<fp_alive, fp_calls, fp_rv, hp_op, hp_error_, hp_callback>>
  /\ UNCHANGED exceptFile

\* FileProxy::~FileProxy: a valid file goes to a FileDeleter task
FileProxy_dtor ==
  /\ fp_alive
  /\ hp_pc \notin {"fatal", "crashed"}
  /\ fp_alive' = FALSE
  /\ deleter_posts' = deleter_posts + (IF fp_file_ = "open" THEN 1 ELSE 0)
  /\ fp_file_' = "invalid"
  /\ UNCHANGED <<fp_calls, fp_rv, hp_op, hp_pc, hp_file_, hp_error_,
                 hp_callback, cb_runs, cb_arg, cb_saw, null_runs>>
  /\ UNCHANGED exceptFile

InitFile ==
  /\ fp_alive = TRUE
  /\ fp_file_ = "invalid"
  /\ fp_calls = 0
  /\ fp_rv = "none"
  /\ hp_op = "none"
  /\ hp_pc = "none"
  /\ hp_file_ = "invalid"
  /\ hp_error_ = "none"
  /\ hp_callback = Null
  /\ cb_runs = 0
  /\ cb_arg = "none"
  /\ cb_saw = "none"
  /\ null_runs = 0
  /\ deleter_posts = 0

NextFile ==
  \/ \E op \in CreateOps, cb \in CallerCallbacks : FileProxy_Create(op, cb)
  \/ \E op \in OpenFileOps, cb \in CallerCallbacks : FileProxy_OnOpenFile(op, cb)
  \/ \E n \in {-1, 0, 1}, cb \in CallerCallbacks : FileProxy_Read(n, cb)
  \/ \E buffer \in {"nullptr", "buf"}, n \in {0, 1}, cb \in CallerCallbacks :
       FileProxy_Write(buffer, n, cb)
  \/ \E os \in OsOutcomes : RunWork(os)
  \/ \E ub \in BOOLEAN : Reply(ub)
  \/ FileProxy_dtor

\* ------------------------------------------- CallbackForward (code)

\* argument types: std::unique_ptr, a scoper with the MoveOnlyTypeForCPP03
\* sentinel, the same scoper const-qualified, and a copyable type
ArgTypes == {"unique_ptr", "scoper", "const scoper", "int"}
ArgValues == {"v1", "v2", "v3"}
MovedFrom == "moved-from"

\* IsMoveOnlyType<T>::value: the type has the sentinel member and is not
\* const; std::unique_ptr is move-only without the sentinel
IsMoveOnlyType(type) == type \in {"unique_ptr", "scoper"}

\* a CallbackForward that reads its argument after having moved from it
CallbackForward_UseAfterMove(type, t) ==
  IF IsMoveOnlyType(type)
  THEN [value |-> MovedFrom, source |-> MovedFrom]
  ELSE [value |-> t, source |-> t]

\* CallbackForward(T& t): return std::move(t) for a move-only type (the
\* result is a new T, t is left moved-from), return t, a reference, otherwise
CallbackForward(type, t) ==
  IF IsMoveOnlyType(type)
  THEN [value |-> t, source |-> MovedFrom]
  ELSE [value |-> t, source |-> t]

\* Bind(fn, std::move(x)) / Bind(fn, x): the argument is stored as
\* StorageType T, move-constructed from a move-only x, copied otherwise
FwBind(type, v) ==
  /\ fw_type = "none"
  /\ fw_type' = type
  /\ fw_bound' = v
  /\ fw_stored' = v
  /\ fw_orig' = IF IsMoveOnlyType(type) THEN MovedFrom ELSE v
  /\ UNCHANGED <<fw_received, fw_runs, fw_arg_type, fw_arg, fw_arg_received>>
  /\ UNCHANGED exceptFwd

\* Run(arg): the stored argument and the run-time argument each go through
\* CallbackForward into the target function.  A bind state that holds a
\* move-only argument is run once.
FwRun(atype, av) ==
  /\ fw_type # "none"
  /\ fw_runs < MaxRuns
  /\ IsMoveOnlyType(fw_type) => fw_runs = 0
  /\ LET b == CallbackForward(fw_type, fw_stored)
         a == CallbackForward(atype, av) IN
       /\ fw_received' = b.value
       /\ fw_stored' = b.source
       /\ fw_arg_received' = a.value
       /\ fw_arg' = a.source
  /\ fw_arg_type' = atype
  /\ fw_runs' = fw_runs + 1
  /\ UNCHANGED <<fw_type, fw_orig, fw_bound>>
  /\ UNCHANGED exceptFwd

InitFwd ==
  /\ fw_type = "none"
  /\ fw_orig = "none"
  /\ fw_bound = "none"
  /\ fw_stored = "none"
  /\ fw_received = "none"
  /\ fw_runs = 0
  /\ fw_arg_type = "none"
  /\ fw_arg = "none"
  /\ fw_arg_received = "none"

NextFwd ==
  \/ \E type \in ArgTypes, v \in ArgValues : FwBind(type, v)
  \/ \E atype \in ArgTypes, av \in ArgValues : FwRun(atype, av)

\* ------------------------------- RefCountedBase called directly (code)

\* the sequences (threads or task queues) a call can come from
Sequences == {"s1", "s2"}

\* RefCountedBase::IsOnValidSequence: return true (the DCHECK_IS_ON branch,
\* ref_count_ <= 1 || CalledOnValidSequence(), is commented out)
RefCountedBase_IsOnValidSequence(c, q, last) == TRUE

\* RefCountedBase::Adopted: its body (the needs_adopt_ref_ check and reset)
\* is commented out
RefCountedBase_Adopted(fatal) == fatal

\* p->AddRef() from sequence q, on a payload that has not been destroyed:
\* AddRef() is AddRefImpl() alone, its DCHECKs are commented out
RawAddRef(o, q) ==
  /\ obj_state[o] \in {"fresh", "owned"}
  /\ ref_count_[o] < MaxRawCount
  /\ SetHeap(RefCounted_AddRef(RefHeap, o))
  /\ ref_last_seq' = [ref_last_seq EXCEPT ![o] = q]
  /\ UNCHANGED <<obj_tag, ptr_, ref_fatal>>
  /\ UNCHANGED exceptRaw

\* p->Release() from sequence q, on a payload that has not been destroyed:
\* --ref_count_, Traits::Destruct when it returns true; its DCHECKs are
\* commented out
RawRelease(o, q) ==
  /\ obj_state[o] \in {"fresh", "owned"}
  /\ ref_count_[o] >= 0
  /\ SetHeap(RefCounted_Release(RefHeap, o))
  /\ ref_last_seq' = [ref_last_seq EXCEPT ![o] = q]
  /\ UNCHANGED <<obj_tag, ptr_, ref_fatal>>
  /\ UNCHANGED exceptRaw

\* AdoptRef(p): p->Adopted(), then the handle takes p without AddRef
RawAdoptRef(h, o) ==
  /\ ptr_[h] = Null
  /\ obj_state[o] = "fresh"
  /\ ref_fatal' = RefCountedBase_Adopted(ref_fatal)
  /\ obj_state' = [obj_state EXCEPT ![o] = "owned"]
  /\ ptr_' = [ptr_ EXCEPT ![h] = o]
  /\ UNCHANGED <<ref_count_, obj_tag, destructs, ref_last_seq>>
  /\ UNCHANGED exceptRaw

InitRaw ==
  /\ ref_fatal = FALSE
  /\ ref_last_seq = [o \in Obj |-> "none"]

NextRaw ==
  \/ \E tag \in {"FromZero", "FromOne"} : New(tag)
  \/ \E h \in Handles, o \in Obj : RawAdoptRef(h, o)
  \/ \E o \in Obj, q \in Sequences : RawAddRef(o, q)
  \/ \E o \in Obj, q \in Sequences : RawRelease(o, q)

\* ------------------------------------ Lock acquired by its holder (code)

LockClasses == {"crbase", "winbase"}

\* crbase::Lock keeps its checks under CR_DCHECK_IS_ON(); winbase::Lock has
\* that branch commented out and is the unchecked wrapper in every build
Lock_HasChecks == lk_class = "crbase" /\ dcheck_is_on

\* lock_.Lock() called by the holder: a critical section counts the
\* recursion (crbase/synchronization/lock.h:41); winbase's LockImpl hides
\* its primitive behind a pointer-sized handle, where the call may instead
\* never return
LockImpl_LockByHolder ==
  IF lk_class = "crbase" THEN {"recursed"} ELSE {"recursed", "deadlock"}

\* lock_.Try() called by the holder
LockImpl_TryByHolder ==
  IF lk_class = "crbase" THEN {TRUE} ELSE {TRUE, FALSE}

\* Lock::CheckUnheldAndMark: DCHECK(owning_thread_ref_.is_null()), then
\* owning_thread_ref_ = the current thread
Lock_CheckUnheldAndMark(owning, t) ==
  [fatal |-> owning # Null, owning |-> t]

\* Lock::CheckHeldAndUnmark: DCHECK(owning_thread_ref_ is the current
\* thread), then owning_thread_ref_ = null
Lock_CheckHeldAndUnmark(owning, t) ==
  [fatal |-> owning # t, owning |-> Null]

\* what follows lock_.Lock() or a true lock_.Try() in Acquire() and Try()
RecMark(t) ==
  IF Lock_HasChecks
    THEN LET r == Lock_CheckUnheldAndMark(owning_thread_ref_, t) IN
           /\ lk_fatal' = r.fatal
           /\ owning_thread_ref_' = r.owning
    ELSE UNCHANGED <<lk_fatal, owning_thread_ref_>>

\* lock_.Lock() or lock_.Try() has given the lock to t
RecTake(t) ==
  /\ lock_owner' = t
  /\ lk_depth' = lk_depth + 1
  /\ lk_pc' = [lk_pc EXCEPT ![t] = "in"]
  /\ RecMark(t)

\* Acquire() by any thread that is not waiting, the holder included
RecAcquire(t) ==
  /\ ~lk_fatal
  /\ lk_pc[t] # "blocked"
  /\ lock_owner \in {Null, t}
  /\ lk_depth < MaxDepth
  /\ \E out \in (IF lock_owner = t THEN LockImpl_LockByHolder
                                   ELSE {"recursed"}) :
       IF out = "recursed"
         THEN RecTake(t)
         ELSE /\ lk_pc' = [lk_pc EXCEPT ![t] = "blocked"]
              /\ UNCHANGED <<lock_owner, recVars>>
  /\ try_rv' = [try_rv EXCEPT ![t] = "none"]
  /\ UNCHANGED exceptRec

\* Try() by any thread that is not waiting, the holder included
RecTry(t) ==
  /\ ~lk_fatal
  /\ lk_pc[t] # "blocked"
  /\ lk_depth < MaxDepth
  /\ \E rv \in (IF lock_owner = t THEN LockImpl_TryByHolder
                                  ELSE {LockImpl_Try(lock_owner, t).rv}) :
       /\ try_rv' = [try_rv EXCEPT ![t] = IF rv THEN "true" ELSE "false"]
       /\ IF rv THEN RecTake(t)
                ELSE UNCHANGED <<lock_owner, lk_pc, recVars>>
  /\ UNCHANGED exceptRec

\* Release() by the holder: CheckHeldAndUnmark() where compiled in, then
\* lock_.Unlock()
RecRelease(t) ==
  /\ ~lk_fatal
  /\ lk_pc[t] = "in"
  /\ lock_owner = t
  /\ LET r == IF Lock_HasChecks
                THEN Lock_CheckHeldAndUnmark(owning_thread_ref_, t)
                ELSE [fatal |-> FALSE, owning |-> owning_thread_ref_] IN
       /\ lk_fatal' = r.fatal
       /\ owning_thread_ref_' = r.owning
       /\ IF r.fatal
            THEN UNCHANGED <<lock_owner, lk_depth, lk_pc>>
            ELSE /\ lk_depth' = lk_depth - 1
                 /\ lock_owner' = IF lk_depth = 1
                                    THEN LockImpl_Unlock(lock_owner, t)
                                    ELSE lock_owner
                 /\ lk_pc' = [lk_pc EXCEPT
                                ![t] = IF lk_depth = 1 THEN "out" ELSE "in"]
  /\ UNCHANGED try_rv
  /\ UNCHANGED exceptRec

InitRec ==
  /\ lk_depth = 0
  /\ owning_thread_ref_ = Null
  /\ lk_fatal = FALSE

NextRec ==
  \/ \E t \in Threads : RecAcquire(t)
  \/ \E t \in Threads : RecTry(t)
  \/ \E t \in Threads : RecRelease(t)

\* ------------------------------------------- AutoLock, AutoUnlock (code)

NoHelper == [kind |-> "none", acquires |-> 0, releases |-> 0, exit |-> "none"]

\* a helper object and the Acquire / Release calls it has made so far
Helper(kind, acquires, releases) ==
  [kind |-> kind, acquires |-> acquires, releases |-> releases,
   exit |-> "none"]

\* the threads that use the scoped helpers
AutoThreads == {1, 2}

\* the ways control leaves a scope; the destructor runs on each
ExitPaths == {"return", "throw"}

Top(t) == al_scope[t][Len(al_scope[t])]
Pop(t) == SubSeq(al_scope[t], 1, Len(al_scope[t]) - 1)
TopIs(t, kinds) == al_scope[t] # <<>> /\ Top(t).kind \in kinds

\* a destructor that forgets the Release()
AutoLock_dtor_NoRelease(owner, t) == owner

\* AutoLock::~AutoLock: lock_.AssertAcquired() (null), lock_.Release()
AutoLock_dtor(owner, t) == Lock_Release(owner, t)

\* a constructor that keeps the lock
AutoUnlock_ctor_NoRelease(owner, t) == owner

\* AutoUnlock::AutoUnlock: lock_.AssertAcquired() (null), lock_.Release()
AutoUnlock_ctor(owner, t) == Lock_Release(owner, t)

\* AutoLock::AutoLock(Lock&): lock_.Acquire(); the thread blocks in it
AutoLock_ctor_Call(t) ==
  /\ lk_pc[t] = "out"
  /\ al_pc[t] = "none"
  /\ Len(al_scope[t]) < MaxNest
  /\ al_scope[t] = <<>> \/ TopIs(t, {"AutoUnlock"})
  /\ lk_pc' = [lk_pc EXCEPT ![t] = "blocked"]
  /\ al_pc' = [al_pc EXCEPT ![t] = "AutoLock"]
  /\ try_rv' = [try_rv EXCEPT ![t] = "none"]
  /\ UNCHANGED <<lock_owner, al_scope, al_last>>
  /\ UNCHANGED exceptAuto

\* AutoUnlock::~AutoUnlock: lock_.Acquire(); the thread blocks in it
AutoUnlock_dtor_Call(t) ==
  /\ lk_pc[t] = "out"
  /\ al_pc[t] = "none"
  /\ TopIs(t, {"AutoUnlock"})
  /\ lk_pc' = [lk_pc EXCEPT ![t] = "blocked"]
  /\ al_pc' = [al_pc EXCEPT ![t] = "~AutoUnlock"]
  /\ UNCHANGED <<lock_owner, try_rv, al_scope, al_last>>
  /\ UNCHANGED exceptAuto

\* the Acquire() of a helper returns: a constructed AutoLock is in scope,
\* a destroyed AutoUnlock is gone
Helper_AcquireReturn(t) ==
  /\ lk_pc[t] = "blocked"
  /\ Lock_AcquireMayReturn(lock_owner)
  /\ lock_owner' = LockImpl_Lock(lock_owner, t)
  /\ lk_pc' = [lk_pc EXCEPT ![t] = "in"]
  /\ al_scope' = [al_scope EXCEPT ![t] =
                    IF al_pc[t] = "AutoLock"
                      THEN Append(@, Helper("AutoLock", 1, 0))
                      ELSE Pop(t)]
  /\ al_pc' = [al_pc EXCEPT ![t] = "none"]
  /\ UNCHANGED <<try_rv, al_last>>
  /\ UNCHANGED exceptAuto

\* Try() outside any scope, by a thread that will adopt the lock
Helper_Try(t) ==
  /\ lk_pc[t] = "out"
  /\ al_pc[t] = "none"
  /\ al_scope[t] = <<>>
  /\ LET r == Lock_Try(lock_owner, t) IN
       /\ lock_owner' = r.owner
       /\ try_rv' = [try_rv EXCEPT ![t] = IF r.rv THEN "true" ELSE "false"]
       /\ lk_pc' = [lk_pc EXCEPT ![t] = IF r.rv THEN "in" ELSE "out"]
  /\ UNCHANGED autoVars
  /\ UNCHANGED exceptAuto

\* AutoLock::AutoLock(Lock&, const AlreadyAcquired&): lock_.AssertAcquired()
AutoLock_ctor_AlreadyAcquired(t) ==
  /\ lk_pc[t] = "in"
  /\ al_scope[t] = <<>>
  /\ al_scope' = [al_scope EXCEPT ![t] = <<Helper("AutoLock adopted", 0, 0)>>]
  /\ UNCHANGED <<lockVars, al_pc, al_last>>
  /\ UNCHANGED exceptAuto

\* AutoLock::~AutoLock when control leaves the scope along path
AutoLock_dtor_Run(t, path) ==
  /\ lk_pc[t] = "in"
  /\ TopIs(t, {"AutoLock", "AutoLock adopted"})
  /\ lock_owner' = AutoLock_dtor(lock_owner, t)
  /\ lk_pc' = [lk_pc EXCEPT ![t] = "out"]
  /\ al_last' = [al_last EXCEPT ![t] =
                   [Top(t) EXCEPT !.releases = @ + 1, !.exit = path]]
  /\ al_scope' = [al_scope EXCEPT ![t] = Pop(t)]
  /\ UNCHANGED <<try_rv, al_pc>>
  /\ UNCHANGED exceptAuto

\* AutoUnlock::AutoUnlock inside the scope of an AutoLock
AutoUnlock_ctor_Run(t) ==
  /\ lk_pc[t] = "in"
  /\ Len(al_scope[t]) < MaxNest
  /\ TopIs(t, {"AutoLock", "AutoLock adopted"})
  /\ lock_owner' = AutoUnlock_ctor(lock_owner, t)
  /\ lk_pc' = [lk_pc EXCEPT ![t] = "out"]
  /\ al_scope' = [al_scope EXCEPT ![t] = Append(@, Helper("AutoUnlock", 0, 1))]
  /\ UNCHANGED <<try_rv, al_pc, al_last>>
  /\ UNCHANGED exceptAuto

InitAuto ==
  /\ al_scope = [t \in Threads |-> <<>>]
  /\ al_pc = [t \in Threads |-> "none"]
  /\ al_last = [t \in Threads |-> NoHelper]

NextAuto ==
  \/ \E t \in AutoThreads : AutoLock_ctor_Call(t)
  \/ \E t \in AutoThreads : Helper_AcquireReturn(t)
  \/ \E t \in AutoThreads : Helper_Try(t)
  \/ \E t \in AutoThreads : AutoLock_ctor_AlreadyAcquired(t)
  \/ \E t \in AutoThreads, path \in ExitPaths : AutoLock_dtor_Run(t, path)
  \/ \E t \in AutoThreads : AutoUnlock_ctor_Run(t)
  \/ \E t \in AutoThreads : AutoUnlock_dtor_Call(t)

\* ----------------------------------------- AtomicSequenceNumber (code)

\* sn_ret holds <<v>> once a call has returned v
NoValue == <<>>

\* addition on int, two's complement
IntAdd(v, n) ==
  LET r == v + n IN IF r > MaxInt32 THEN r - 2 * (MaxInt32 + 1) ELSE r

\* std::atomic_int::fetch_add: one indivisible read-modify-write that
\* returns the value held before
atomic_fetch_add(v, n) == [stored |-> IntAdd(v, n), result |-> v]

\* a thread enters GetNext()
GetNext_Call(t) ==
  /\ sn_pc[t] = "idle"
  /\ Len(sn_returned) + Cardinality({u \in Threads : sn_pc[u] = "called"})
       < MaxCalls
  /\ sn_pc' = [sn_pc EXCEPT ![t] = "called"]
  /\ sn_ret' = [sn_ret EXCEPT ![t] = NoValue]
  /\ UNCHANGED <<seq_, sn_returned>>
  /\ UNCHANGED exceptSeq

\* GetNext: return seq_.fetch_add(1, std::memory_order_relaxed)
\* a GetNext() that hands back the value it stored
GetNext_Return_ReturnsNew(t) ==
  /\ sn_pc[t] = "called"
  /\ LET r == atomic_fetch_add(seq_, 1) IN
       /\ seq_' = r.stored
       /\ sn_ret' = [sn_ret EXCEPT ![t] = <<r.stored>>]
       /\ sn_returned' = Append(sn_returned, r.stored)
  /\ sn_pc' = [sn_pc EXCEPT ![t] = "idle"]
  /\ UNCHANGED exceptSeq

GetNext_Return(t) ==
  /\ sn_pc[t] = "called"
  /\ LET r == atomic_fetch_add(seq_, 1) IN
       /\ seq_' = r.stored
       /\ sn_ret' = [sn_ret EXCEPT ![t] = <<r.result>>]
       /\ sn_returned' = Append(sn_returned, r.result)
  /\ sn_pc' = [sn_pc EXCEPT ![t] = "idle"]
  /\ UNCHANGED exceptSeq

InitSeq ==
  /\ seq_ = 0
  /\ sn_pc = [t \in Threads |-> "idle"]
  /\ sn_ret = [t \in Threads |-> NoValue]
  /\ sn_returned = <<>>

NextSeq ==
  \/ \E t \in Threads : GetNext_Call(t)
  \/ \E t \in Threads : GetNext_Return(t)

\* ------------------------------------------------- ObserverList (code)

Observers == 1..NObservers
Policies == {"ALL", "EXISTING_ONLY"}
IterIds == {1, 2}

\* std::numeric_limits<size_t>::max(), kept as the largest integer here
SizeMax == MaxInt32

Min(a, b) == IF a < b THEN a ELSE b
Range(seq) == {seq[i] : i \in 1..Len(seq)}

\* a slot without an Iter object, and the Iter objects
NoIter == [live |-> FALSE, list_ |-> FALSE, index_ |-> 0, max_index_ |-> 0]
Iter(list, index, max_index) ==
  [live |-> TRUE, list_ |-> list, index_ |-> index, max_index_ |-> max_index]

\* ContainsValue(observers_, obs)
HasObserver(obs_, o) == o \in Range(obs_)

\* std::find: the first position holding o
Find(obs_, o) == CHOOSE i \in 1..Len(obs_) :
                   obs_[i] = o /\ \A j \in 1..(i - 1) : obs_[j] # o

Erase(obs_, i) == SubSeq(obs_, 1, i - 1) \o SubSeq(obs_, i + 1, Len(obs_))

\* an AddObserver without the HasObserver test
ObserverList_AddObserver_NoTest(obs_, o) == Append(obs_, o)

\* ObserverList::AddObserver: return if HasObserver(obs), else push_back
ObserverList_AddObserver(obs_, o) ==
  IF HasObserver(obs_, o) THEN obs_ ELSE Append(obs_, o)

\* a RemoveObserver that erases whatever the iterator count
ObserverList_RemoveObserver_Erases(obs_, count, o) ==
  IF ~HasObserver(obs_, o) THEN obs_ ELSE Erase(obs_, Find(obs_, o))

\* ObserverList::RemoveObserver: null the slot while an iterator is live,
\* erase it otherwise
ObserverList_RemoveObserver(obs_, count, o) ==
  IF ~HasObserver(obs_, o) THEN obs_
  ELSE IF count # 0 THEN [obs_ EXCEPT ![Find(obs_, o)] = Null]
  ELSE Erase(obs_, Find(obs_, o))

\* ObserverList::Clear: std::fill with nullptr while an iterator is live,
\* clear otherwise
ObserverList_Clear(obs_, count) ==
  IF count # 0 THEN [i \in 1..Len(obs_) |-> Null] ELSE <<>>

\* ObserverList::Compact: erase(remove(begin, end, nullptr), end)
ObserverList_Compact(obs_) == SelectSeq(obs_, LAMBDA x : x # Null)

\* Iter::clamped_max_index: min(max_index_, observers_.size())
clamped_max_index(it, obs_) == Min(it.max_index_, Len(obs_))

\* Iter::is_end
is_end(it, obs_) == ~it.list_ \/ it.index_ = clamped_max_index(it, obs_)

\* Iter::GetCurrent: observers_[index_]
GetCurrent(it, obs_) == obs_[it.index_ + 1]

\* an EnsureValidIndex that leaves the index on a nulled slot
EnsureValidIndex_NoSkip(it, obs_) == it

\* Iter::EnsureValidIndex: step over nulled slots, up to the clamped maximum
RECURSIVE EnsureValidIndex(_, _)
EnsureValidIndex(it, obs_) ==
  IF it.index_ < clamped_max_index(it, obs_) /\ obs_[it.index_ + 1] = Null
    THEN EnsureValidIndex([it EXCEPT !.index_ = @ + 1], obs_)
    ELSE it

\* an Iter whose maximum ignores the policy
Iter_ctor_IgnoresPolicy(obs_, policy) ==
  EnsureValidIndex(Iter(TRUE, 0, SizeMax), obs_)

\* Iter::Iter(const ObserverList*): index_ 0, max_index_ by policy,
\* EnsureValidIndex()
Iter_ctor(obs_, policy) ==
  EnsureValidIndex(
    Iter(TRUE, 0, IF policy = "ALL" THEN SizeMax ELSE Len(obs_)), obs_)

\* ObserverList::begin: Iter() for an empty list, Iter(this) otherwise
ObserverList_begin(obs_, policy) ==
  IF Len(obs_) = 0 THEN Iter(FALSE, 0, 0) ELSE Iter_ctor(obs_, policy)

\* Iter::operator++: ++index_ and EnsureValidIndex() when list_ is set
Iter_increment(it, obs_) ==
  IF it.list_ THEN EnsureValidIndex([it EXCEPT !.index_ = @ + 1], obs_)
              ELSE it

\* a copy constructor that does not count the copy
Iter_copy_count_NotCounted(it, count) == count

\* Iter::Iter(const Iter&): ++list_->live_iterator_count_ when list_ is set
Iter_copy_count(it, count) == IF it.list_ THEN count + 1 ELSE count

\* Iter::~Iter: nothing without list_; else --live_iterator_count_ and
\* Compact() when it reaches 0
Iter_dtor(it, obs_, count) ==
  IF ~it.list_ THEN [observers_ |-> obs_, count |-> count]
  ELSE [observers_ |-> IF count - 1 = 0 THEN ObserverList_Compact(obs_)
                                        ELSE obs_,
        count |-> count - 1]

\* bookkeeping of a range-for loop over the list: whether its iterator is
\* positioned ("at") or the loop body runs, the size of the vector when it
\* began, the slots it dereferenced with what they held, and the slots
\* nulled before it reached them; the iterator of the loop at nesting
\* depth d is ol_it[d]
Pass(pc, size0, visited, skipped) ==
  [pc |-> pc, size0 |-> size0, visited |-> visited, skipped |-> skipped]

TopPass == ol_pass[Len(ol_pass)]
VisitedSlots(p) == {p.visited[i].index : i \in 1..Len(p.visited)}
VisitedObs(p) == {p.visited[i].obs : i \in 1..Len(p.visited)}

\* the list is changed outside any loop or from the body of the innermost
CanCall == IF Len(ol_pass) = 0 THEN TRUE ELSE TopPass.pc = "body"

\* the slots a change of the vector has nulled
NulledBy(after) ==
  {i \in 0..(Len(observers_) - 1) :
     observers_[i + 1] # Null /\ Len(after) = Len(observers_)
       /\ after[i + 1] = Null}

\* every loop in progress notes the nulled slots it had not reached
Noted(nulled) ==
  [i \in 1..Len(ol_pass) |->
     [ol_pass[i] EXCEPT
        !.skipped = @ \cup (nulled \ VisitedSlots(ol_pass[i]))]]

AddObserver(o) ==
  /\ CanCall
  /\ Len(observers_) < MaxSize
  /\ observers_' = ObserverList_AddObserver(observers_, o)
  /\ UNCHANGED <<live_iterator_count_, ol_it, ol_pass>>
  /\ UNCHANGED exceptObs

RemoveObserver(o) ==
  /\ CanCall
  /\ observers_' =
       ObserverList_RemoveObserver(observers_, live_iterator_count_, o)
  /\ ol_pass' = Noted(NulledBy(observers_'))
  /\ UNCHANGED <<live_iterator_count_, ol_it>>
  /\ UNCHANGED exceptObs

Clear ==
  /\ CanCall
  /\ Len(observers_) > 0
  /\ observers_' = ObserverList_Clear(observers_, live_iterator_count_)
  /\ ol_pass' = Noted(NulledBy(observers_'))
  /\ UNCHANGED <<live_iterator_count_, ol_it>>
  /\ UNCHANGED exceptObs

\* for (Observer& obs : list): begin()
PassBegin ==
  /\ CanCall
  /\ Len(ol_pass) < Cardinality(IterIds)
  /\ LET it == ObserverList_begin(observers_, ol_policy) IN
       /\ ol_it' = [ol_it EXCEPT ![Len(ol_pass) + 1] = it]
       /\ live_iterator_count_' =
            IF it.list_ THEN live_iterator_count_ + 1
                        ELSE live_iterator_count_
  /\ ol_pass' = Append(ol_pass, Pass("at", Len(observers_), <<>>, {}))
  /\ UNCHANGED observers_
  /\ UNCHANGED exceptObs

\* it != end(), then *it: the loop body starts on the current observer
PassVisit ==
  /\ Len(ol_pass) > 0
  /\ TopPass.pc = "at"
  /\ LET it == ol_it[Len(ol_pass)] IN
       /\ ~is_end(it, observers_)
       /\ ol_pass' = [ol_pass EXCEPT ![Len(ol_pass)] =
            [@ EXCEPT !.pc = "body",
                      !.visited = Append(@, [index |-> it.index_,
                                             obs |-> GetCurrent(it, observers_)])]]
  /\ UNCHANGED <<observers_, live_iterator_count_, ol_it>>
  /\ UNCHANGED exceptObs

\* the loop body returns, then ++it
PassIncrement ==
  /\ Len(ol_pass) > 0
  /\ TopPass.pc = "body"
  /\ ol_it' = [ol_it EXCEPT ![Len(ol_pass)] = Iter_increment(@, observers_)]
  /\ ol_pass' = [ol_pass EXCEPT ![Len(ol_pass)].pc = "at"]
  /\ UNCHANGED <<observers_, live_iterator_count_>>
  /\ UNCHANGED exceptObs

\* it == end(): the loop is over and its iterator is destroyed
PassEnd ==
  /\ Len(ol_pass) > 0
  /\ TopPass.pc = "at"
  /\ is_end(ol_it[Len(ol_pass)], observers_)
  /\ LET r == Iter_dtor(ol_it[Len(ol_pass)], observers_,
                        live_iterator_count_) IN
       /\ observers_' = r.observers_
       /\ live_iterator_count_' = r.count
  /\ ol_it' = [ol_it EXCEPT ![Len(ol_pass)] = NoIter]
  /\ ol_pass' = SubSeq(ol_pass, 1, Len(ol_pass) - 1)
  /\ UNCHANGED exceptObs

\* an iterator taken by hand: list.begin()
IterBegin(k) ==
  /\ ~ol_it[k].live
  /\ LET it == ObserverList_begin(observers_, ol_policy) IN
       /\ ol_it' = [ol_it EXCEPT ![k] = it]
       /\ live_iterator_count_' =
            IF it.list_ THEN live_iterator_count_ + 1
                        ELSE live_iterator_count_
  /\ UNCHANGED <<observers_, ol_pass>>
  /\ UNCHANGED exceptObs

\* ++it on an iterator that is not at the end
IterIncrement(k) ==
  /\ ol_it[k].live
  /\ ~is_end(ol_it[k], observers_)
  /\ ol_it' = [ol_it EXCEPT ![k] = Iter_increment(@, observers_)]
  /\ UNCHANGED <<observers_, live_iterator_count_, ol_pass>>
  /\ UNCHANGED exceptObs

\* Iter(const Iter&): a copy of a live iterator
IterCopy(src, dst) ==
  /\ ol_it[src].live /\ ~ol_it[dst].live
  /\ ol_it' = [ol_it EXCEPT ![dst] = ol_it[src]]
  /\ live_iterator_count_' = Iter_copy_count(ol_it[src], live_iterator_count_)
  /\ UNCHANGED <<observers_, ol_pass>>
  /\ UNCHANGED exceptObs

\* Iter::operator=(Iter other): other is a copy of src, swapped with *this
\* and destroyed with the former contents of *this
IterAssign(dst, src) ==
  /\ ol_it[src].live /\ ol_it[dst].live
  /\ LET r == Iter_dtor(ol_it[dst], observers_,
                        Iter_copy_count(ol_it[src], live_iterator_count_)) IN
       /\ observers_' = r.observers_
       /\ live_iterator_count_' = r.count
  /\ ol_it' = [ol_it EXCEPT ![dst] = ol_it[src]]
  /\ UNCHANGED ol_pass
  /\ UNCHANGED exceptObs

\* Iter::~Iter
IterDestroy(k) ==
  /\ ol_it[k].live
  /\ LET r == Iter_dtor(ol_it[k], observers_, live_iterator_count_) IN
       /\ observers_' = r.observers_
       /\ live_iterator_count_' = r.count
  /\ ol_it' = [ol_it EXCEPT ![k] = NoIter]
  /\ UNCHANGED ol_pass
  /\ UNCHANGED exceptObs

InitObs ==
  /\ observers_ = <<>>
  /\ live_iterator_count_ = 0
  /\ ol_it = [k \in IterIds |-> NoIter]
  /\ ol_pass = <<>>

ListChange ==
  \/ \E o \in Observers : AddObserver(o)
  \/ \E o \in Observers : RemoveObserver(o)
  \/ Clear

NextObs ==
  \/ ListChange
  \/ PassBegin
  \/ PassVisit
  \/ PassIncrement
  \/ PassEnd

NextIter ==
  \/ ListChange
  \/ \E k \in IterIds : IterBegin(k)
  \/ \E k \in IterIds : IterIncrement(k)
  \/ \E src \in IterIds, dst \in IterIds : IterCopy(src, dst)
  \/ \E src \in IterIds, dst \in IterIds : IterAssign(dst, src)
  \/ \E k \in IterIds : IterDestroy(k)

\* --------------------------------------- ThreadTaskRunnerHandle (code)

\* the task runners of the thread; the handle was set with the first
Runners == {"r0", "r1", "r2"}
OriginalRunner == "r0"

\* ThreadTaskRunnerHandle::Get: current->task_runner_
ThreadTaskRunnerHandle_Get == task_runner_

\* an override that leaves the handle's runner in place
OverrideForTesting_NoSwap(current, overriding) ==
  [task_runner_ |-> current,
   closure |-> [restore |-> overriding, expected |-> current,
                before |-> current, installed |-> overriding]]

\* ThreadTaskRunnerHandle::OverrideForTesting with the handle set: swap the
\* handle's runner with the overriding one; the closure binds the previous
\* runner as task_runner_to_restore and the handle's new runner as
\* expected_task_runner_before_restore (before and installed: what Get()
\* returned before the call and the argument of the call)
OverrideForTesting(current, overriding) ==
  [task_runner_ |-> overriding,
   closure |-> [restore |-> current, expected |-> overriding,
                before |-> current, installed |-> overriding]]

\* the restore closure: DCHECK_EQ(expected_task_runner_before_restore,
\* ttrh->task_runner_.get()), then swap with task_runner_to_restore
RestoreClosure(closure, current) ==
  IF dcheck_is_on /\ closure.expected # current
    THEN [fatal |-> TRUE, task_runner_ |-> current]
    ELSE [fatal |-> FALSE, task_runner_ |-> closure.restore]

Override(r) ==
  /\ ~tt_fatal
  /\ Len(tt_closures) < MaxOverrides
  /\ LET o == OverrideForTesting(task_runner_, r) IN
       /\ task_runner_' = o.task_runner_
       /\ tt_closures' = Append(tt_closures, o.closure)
  /\ UNCHANGED <<tt_fatal, tt_lifo>>
  /\ UNCHANGED exceptTt

\* the i-th outstanding ScopedClosureRunner runs (or is destroyed)
RunClosure(i) ==
  /\ ~tt_fatal
  /\ i \in 1..Len(tt_closures)
  /\ LET r == RestoreClosure(tt_closures[i], task_runner_) IN
       /\ tt_fatal' = r.fatal
       /\ task_runner_' = r.task_runner_
  /\ tt_closures' = SubSeq(tt_closures, 1, i - 1)
                      \o SubSeq(tt_closures, i + 1, Len(tt_closures))
  /\ tt_lifo' = (tt_lifo /\ i = Len(tt_closures))
  /\ UNCHANGED exceptTt

InitTt ==
  /\ task_runner_ = OriginalRunner
  /\ tt_closures = <<>>
  /\ tt_fatal = FALSE
  /\ tt_lifo = TRUE

NextTt ==
  \/ \E r \in Runners : Override(r)
  \/ \E i \in 1..MaxOverrides : RunClosure(i)

\* ------------------- ThreadTaskRunnerHandle and its TLS pointer (code)

\* the threads of SpecTls; every runner of TlRunners belongs to the thread
\* that uses it, and a handle is destroyed on the thread that made it
TlThreads == {1, 2}
TlRunners == {"r1", "r2"}
TlCall(t, call, value) == [thread |-> t, call |-> call, value |-> value]
\* two handle objects: what a second construction on one thread takes
TtrhIds == {1, 2}
NoTtrh == [on |-> Null, task_runner_ |-> "none", owner |-> "none"]
Ttrh(t, r, owner) == [on |-> t, task_runner_ |-> r, owner |-> owner]

\* the handle objects that exist on thread t
TtrhOn(t) == {h \in TtrhIds : tl_handles[h].on = t}

\* ThreadTaskRunnerHandle::IsSet: !!thread_task_runner_tls.Pointer()->Get()
ThreadTaskRunnerHandle_IsSet(tls) == tls # Null

\* SequencedTaskRunnerHandle::IsSet, which includes
\* ThreadTaskRunnerHandle::IsSet(); no other sequenced handle is set
SequencedTaskRunnerHandle_IsSet(tls) == ThreadTaskRunnerHandle_IsSet(tls)

\* ThreadTaskRunnerHandle::Get: CHECK(current), then current->task_runner_
ThreadTaskRunnerHandle_GetChecked(tls, handles) ==
  IF tls = Null THEN [fatal |-> TRUE, value |-> NoValue]
  ELSE [fatal |-> FALSE, value |-> <<handles[tls].task_runner_>>]

\* the constructor: DCHECK(!SequencedTaskRunnerHandle::IsSet()), then the
\* thread-local pointer is set to this
ThreadTaskRunnerHandle_ctor(tls, h) ==
  IF dcheck_is_on /\ SequencedTaskRunnerHandle_IsSet(tls)
    THEN [fatal |-> TRUE, tls |-> tls]
    ELSE [fatal |-> FALSE, tls |-> h]

\* a destructor that leaves the thread-local pointer as it is
ThreadTaskRunnerHandle_dtor_KeepsTls(tls, h) ==
  IF dcheck_is_on /\ tls # h
    THEN [fatal |-> TRUE, tls |-> tls]
    ELSE [fatal |-> FALSE, tls |-> tls]

\* the destructor: DCHECK_EQ(thread_task_runner_tls.Pointer()->Get(), this),
\* then the thread-local pointer is set to nullptr
ThreadTaskRunnerHandle_dtor(tls, h) ==
  IF dcheck_is_on /\ tls # h
    THEN [fatal |-> TRUE, tls |-> tls]
    ELSE [fatal |-> FALSE, tls |-> Null]

\* the closure of OverrideForTesting on a thread without a handle: it owns
\* the new handle and destroys it when it runs
ReleaseClosure(h) ==
  [kind |-> "release", ttrh |-> h, restore |-> "none", expected |-> "none"]
\* the closure of OverrideForTesting on a thread with a handle
SwapClosure(closure) ==
  [kind |-> "restore", ttrh |-> Null, restore |-> closure.restore,
   expected |-> closure.expected]

TlStopped == tl_fatal \/ tl_crashed

\* the ScopedClosureRunners kept by all threads, and the next free handle
TlScoped == Len(tl_closures[1]) + Len(tl_closures[2])
TlFree(h) ==
  /\ tl_handles[h] = NoTtrh
  /\ \A g \in TtrhIds : g < h => tl_handles[g] # NoTtrh

TlRemove(q, i) == SubSeq(q, 1, i - 1) \o SubSeq(q, i + 1, Len(q))

\* ThreadTaskRunnerHandle handle(r), made by the user on thread t
TlConstruct(t, h, r) ==
  /\ ~TlStopped
  /\ TlFree(h)
  /\ LET c == ThreadTaskRunnerHandle_ctor(thread_task_runner_tls[t], h) IN
       IF c.fatal
         THEN /\ tl_fatal' = TRUE
              /\ UNCHANGED <<thread_task_runner_tls, tl_handles, tl_last>>
         ELSE /\ thread_task_runner_tls' =
                   [thread_task_runner_tls EXCEPT ![t] = c.tls]
              /\ tl_handles' = [tl_handles EXCEPT ![h] = Ttrh(t, r, "user")]
              /\ tl_last' = TlCall(t, "ctor", NoValue)
              /\ UNCHANGED tl_fatal
  /\ UNCHANGED <<tl_closures, tl_crashed>>
  /\ UNCHANGED exceptTl

\* a handle the user made goes out of scope on its thread
TlDestroy(t, h) ==
  /\ ~TlStopped
  /\ tl_handles[h].on = t /\ tl_handles[h].owner = "user"
  /\ LET d == ThreadTaskRunnerHandle_dtor(thread_task_runner_tls[t], h) IN
       IF d.fatal
         THEN /\ tl_fatal' = TRUE
              /\ UNCHANGED <<thread_task_runner_tls, tl_handles, tl_last>>
         ELSE /\ thread_task_runner_tls' =
                   [thread_task_runner_tls EXCEPT ![t] = d.tls]
              /\ tl_handles' = [tl_handles EXCEPT ![h] = NoTtrh]
              /\ tl_last' = TlCall(t, "dtor", NoValue)
              /\ UNCHANGED tl_fatal
  /\ UNCHANGED <<tl_closures, tl_crashed>>
  /\ UNCHANGED exceptTl

\* thread t calls ThreadTaskRunnerHandle::Get()
TlGet(t) ==
  /\ ~TlStopped
  /\ LET g == ThreadTaskRunnerHandle_GetChecked(thread_task_runner_tls[t],
                                                tl_handles) IN
       IF g.fatal
         THEN /\ tl_fatal' = TRUE
              /\ UNCHANGED tl_last
         ELSE /\ tl_last' = TlCall(t, "get", g.value)
              /\ UNCHANGED tl_fatal
  /\ UNCHANGED <<thread_task_runner_tls, tl_handles, tl_closures, tl_crashed>>
  /\ UNCHANGED exceptTl

\* thread t calls ThreadTaskRunnerHandle::OverrideForTesting(r) and keeps
\* the ScopedClosureRunner
TlOverride(t, r) ==
  /\ ~TlStopped
  /\ TlScoped < MaxScoped
  /\ LET tls == thread_task_runner_tls[t] IN
       IF ~ThreadTaskRunnerHandle_IsSet(tls)
         THEN \E h \in TtrhIds :
                /\ TlFree(h)
                /\ LET c == ThreadTaskRunnerHandle_ctor(tls, h) IN
                     /\ tl_fatal' = c.fatal
                     /\ thread_task_runner_tls' =
                          [thread_task_runner_tls EXCEPT ![t] = c.tls]
                /\ tl_handles' =
                     [tl_handles EXCEPT ![h] = Ttrh(t, r, "closure")]
                /\ tl_closures' =
                     [tl_closures EXCEPT
                        ![t] = Append(@, ReleaseClosure(h))]
         ELSE LET o == OverrideForTesting(tl_handles[tls].task_runner_, r) IN
                /\ tl_handles' =
                     [tl_handles EXCEPT ![tls].task_runner_ = o.task_runner_]
                /\ tl_closures' =
                     [tl_closures EXCEPT
                        ![t] = Append(@, SwapClosure(o.closure))]
                /\ UNCHANGED <<thread_task_runner_tls, tl_fatal>>
  /\ tl_last' = TlCall(t, "override", NoValue)
  /\ UNCHANGED tl_crashed
  /\ UNCHANGED exceptTl

\* the i-th ScopedClosureRunner of thread t runs its closure, which owns a
\* handle: the handle is destroyed after the empty lambda has run
TlRunRelease(t, i) ==
  /\ ~TlStopped
  /\ i \in 1..Len(tl_closures[t])
  /\ tl_closures[t][i].kind = "release"
  /\ LET h == tl_closures[t][i].ttrh
         d == ThreadTaskRunnerHandle_dtor(thread_task_runner_tls[t], h) IN
       IF d.fatal
         THEN /\ tl_fatal' = TRUE
              /\ UNCHANGED <<thread_task_runner_tls, tl_handles, tl_last>>
         ELSE /\ thread_task_runner_tls' =
                   [thread_task_runner_tls EXCEPT ![t] = d.tls]
              /\ tl_handles' = [tl_handles EXCEPT ![h] = NoTtrh]
              /\ tl_last' = TlCall(t, "release", NoValue)
              /\ UNCHANGED tl_fatal
  /\ tl_closures' = [tl_closures EXCEPT ![t] = TlRemove(@, i)]
  /\ UNCHANGED tl_crashed
  /\ UNCHANGED exceptTl

\* the i-th ScopedClosureRunner of thread t runs its closure, which swaps
\* the runner back into the handle the thread-local pointer holds; with a
\* null pointer ttrh->task_runner_ is undefined: the access faults, or the
\* build has compiled it to nothing that can be seen
TlRunRestore(t, i) ==
  /\ ~TlStopped
  /\ i \in 1..Len(tl_closures[t])
  /\ tl_closures[t][i].kind = "restore"
  /\ LET tls == thread_task_runner_tls[t] IN
       IF tls = Null
         THEN /\ tl_crashed' \in BOOLEAN
              /\ UNCHANGED <<tl_handles, tl_fatal>>
         ELSE LET r == RestoreClosure(tl_closures[t][i],
                                      tl_handles[tls].task_runner_) IN
                /\ tl_fatal' = r.fatal
                /\ tl_handles' =
                     [tl_handles EXCEPT ![tls].task_runner_ = r.task_runner_]
                /\ UNCHANGED tl_crashed
  /\ tl_closures' = [tl_closures EXCEPT ![t] = TlRemove(@, i)]
  /\ tl_last' = TlCall(t, "restore", NoValue)
  /\ UNCHANGED thread_task_runner_tls
  /\ UNCHANGED exceptTl

InitTl ==
  /\ thread_task_runner_tls = [t \in TlThreads |-> Null]
  /\ tl_handles = [h \in TtrhIds |-> NoTtrh]
  /\ tl_closures = [t \in TlThreads |-> <<>>]
  /\ tl_fatal = FALSE
  /\ tl_crashed = FALSE
  /\ tl_last = TlCall(Null, "none", NoValue)

NextTl ==
  \/ \E t \in TlThreads, h \in TtrhIds, r \in TlRunners : TlConstruct(t, h, r)
  \/ \E t \in TlThreads, h \in TtrhIds : TlDestroy(t, h)
  \/ \E t \in TlThreads : TlGet(t)
  \/ \E t \in TlThreads, r \in TlRunners : TlOverride(t, r)
  \/ \E t \in TlThreads, i \in 1..MaxScoped : TlRunRelease(t, i)
  \/ \E t \in TlThreads, i \in 1..MaxScoped : TlRunRestore(t, i)

\* ------------------------------------------------- File::Initialize (code)

\* a FilePath as its components
PathComponents == {"a", ".."}
FilePaths ==
  UNION {[1..n -> PathComponents] : n \in 0..MaxPathLen}
\* the flags argument: none, one bit, the 31 low bits
FileFlags == {0, 1, MaxInt32}
\* what CreateFile makes of a DoInitialize
CreateFileOutcomes == {"ok", "fail"}
FiCall(call, path, flags) == [call |-> call, path |-> path, flags |-> flags]

\* FilePath::ReferencesParent: some component is ".."
FilePath_ReferencesParent(path) ==
  \E i \in 1..Len(path) : path[i] = ".."

\* the File object, so that the calls of one function compose
FiState ==
  [file_ |-> fi_file_, error_details_ |-> fi_error_details_,
   tracing_path_ |-> fi_tracing_path_, last_error |-> fi_last_error,
   do_initialize |-> fi_do_initialize, fatal |-> fi_fatal]

\* File::File(): error_details_(FILE_ERROR_FAILED), no platform file
File_ctor ==
  [file_ |-> "invalid", error_details_ |-> "FILE_ERROR_FAILED",
   tracing_path_ |-> NoValue, last_error |-> "none", do_initialize |-> FALSE,
   fatal |-> FALSE]

\* File::DoInitialize: DCHECK(!IsValid()), then CreateFile; a valid handle
\* gives FILE_OK, a failure the error of the operating system
File_DoInitialize(st, path, flags, os) ==
  IF dcheck_is_on /\ st.file_ = "open"
    THEN [st EXCEPT !.fatal = TRUE, !.do_initialize = TRUE]
  ELSE IF os = "ok"
    THEN [st EXCEPT !.file_ = "open", !.error_details_ = "FILE_OK",
                    !.last_error = "os", !.do_initialize = TRUE]
    ELSE [st EXCEPT !.file_ = "invalid", !.error_details_ = "os_error",
                    !.last_error = "os", !.do_initialize = TRUE]

\* an Initialize without the test of the path
File_Initialize_NoParentTest(st, path, flags, tracing, os) ==
  File_DoInitialize(
    IF tracing THEN [st EXCEPT !.tracing_path_ = <<path>>] ELSE st,
    path, flags, os)

\* File::Initialize: a path that references a parent sets the last error
\* and error_details_ and returns; any other path is traced if the category
\* is enabled and given to DoInitialize
File_Initialize(st, path, flags, tracing, os) ==
  IF FilePath_ReferencesParent(path)
    THEN [st EXCEPT !.last_error = "ERROR_ACCESS_DENIED",
                    !.error_details_ = "FILE_ERROR_ACCESS_DENIED",
                    !.do_initialize = FALSE]
    ELSE File_DoInitialize(
           IF tracing THEN [st EXCEPT !.tracing_path_ = <<path>>] ELSE st,
           path, flags, os)

\* File::File(path, flags): error_details_(FILE_OK), then Initialize
File_ctor_PathFlags(path, flags, tracing, os) ==
  File_Initialize([File_ctor EXCEPT !.error_details_ = "FILE_OK"],
                  path, flags, tracing, os)

FiSet(st) ==
  /\ fi_file_' = st.file_
  /\ fi_error_details_' = st.error_details_
  /\ fi_tracing_path_' = st.tracing_path_
  /\ fi_last_error' = st.last_error
  /\ fi_do_initialize' = st.do_initialize
  /\ fi_fatal' = st.fatal

\* File file(path, flags): a new object takes the place of the old one
FileConstruct(path, flags, tracing, os) ==
  /\ ~fi_fatal
  /\ FiSet(File_ctor_PathFlags(path, flags, tracing, os))
  /\ fi_args' = FiCall("File", path, flags)
  /\ UNCHANGED exceptFi

\* file.Initialize(path, flags) on the object as it is
FileInitialize(path, flags, tracing, os) ==
  /\ ~fi_fatal
  /\ FiSet(File_Initialize(FiState, path, flags, tracing, os))
  /\ fi_args' = FiCall("Initialize", path, flags)
  /\ UNCHANGED exceptFi

InitFi ==
  /\ fi_file_ = File_ctor.file_
  /\ fi_error_details_ = File_ctor.error_details_
  /\ fi_tracing_path_ = File_ctor.tracing_path_
  /\ fi_last_error = File_ctor.last_error
  /\ fi_do_initialize = File_ctor.do_initialize
  /\ fi_fatal = File_ctor.fatal
  /\ fi_args = FiCall("none", <<>>, 0)

NextFi ==
  \/ \E path \in FilePaths, flags \in FileFlags, tracing \in BOOLEAN,
        os \in CreateFileOutcomes : FileConstruct(path, flags, tracing, os)
  \/ \E path \in FilePaths, flags \in FileFlags, tracing \in BOOLEAN,
        os \in CreateFileOutcomes : FileInitialize(path, flags, tracing, os)

\* --------------------------------------------------------- specifications

InitParts == InitRef /\ InitTS /\ InitLock /\ InitCb /\ InitFile /\ InitFwd
             /\ InitRaw /\ InitRec /\ InitAuto
             /\ InitSeq /\ InitObs /\ InitTt /\ InitTl
             /\ InitFi

\* the code of SpecRef, SpecTS, SpecLock, SpecCb, SpecBound and SpecFwd has
\* no DCHECK
Init ==
  /\ InitParts
  /\ dcheck_is_on = FALSE /\ lk_class = "winbase" /\ ol_policy = "ALL"

\* a build with DCHECKs compiled in, or one without
InitBuilds ==
  /\ InitParts
  /\ dcheck_is_on \in BOOLEAN /\ lk_class = "winbase" /\ ol_policy = "ALL"

\* either build, and a Lock of either namespace
InitLocks ==
  /\ InitParts
  /\ dcheck_is_on \in BOOLEAN /\ lk_class \in LockClasses /\ ol_policy = "ALL"

\* an ObserverList of either policy
InitPolicies ==
  /\ InitParts
  /\ dcheck_is_on = FALSE /\ lk_class = "winbase" /\ ol_policy \in Policies

SpecRef == Init /\ [][NextRef]_vars
SpecTS == Init /\ [][NextTS]_vars
SpecLock == Init /\ [][NextLock]_vars
SpecCb == Init /\ [][NextCb]_vars
SpecBound == Init /\ [][NextBound]_vars
SpecFile == InitBuilds /\ [][NextFile]_vars
SpecFwd == Init /\ [][NextFwd]_vars
SpecRaw == InitBuilds /\ [][NextRaw]_vars
SpecRec == InitLocks /\ [][NextRec]_vars
SpecAuto == Init /\ [][NextAuto]_vars
SpecSeq == Init /\ [][NextSeq]_vars
SpecObs == InitPolicies /\ [][NextObs]_vars
SpecIter == InitPolicies /\ [][NextIter]_vars
SpecTtrh == InitBuilds /\ [][NextTt]_vars
SpecTls == InitBuilds /\ [][NextTl]_vars
SpecInit == InitBuilds /\ [][NextFi]_vars

\* fair scheduling of the lock: a holder goes on to call Release(), and a
\* thread waiting in Acquire() is not passed over for ever
LockFairness ==
  \A t \in Threads : WF_vars(ReleaseCall(t)) /\ SF_vars(AcquireReturn(t))

SpecLockFair == Init /\ [][NextLock]_vars /\ LockFairness

\* callback handles that reference bind state b
CbHandlesOn(b) == {h \in CbHandles : bind_state_[h] = b}

\* handles that point at payload o
HandlesOn(o) == {h \in Handles : ptr_[h] = o}

\* ------------------------------------------------------------ C1, C3

\* C1: for a RefCounted payload held through live references, Traits::Destruct
\* is invoked if and only if, and in the very step in which, a Release brings
\* the count from >= 1 to 0, and it is invoked at most once over the payload's
\* life (once when the last holder lets go).
C1_DestructExactlyAtZero ==
  [][\A o \in Obj :
       /\ destructs'[o] \in {destructs[o], destructs[o] + 1}
       /\ (destructs'[o] = destructs[o] + 1)
            <=> (ref_count_[o] # 0 /\ ref_count_'[o] = 0)
       /\ destructs'[o] <= 1
       /\ (obj_state'[o] = "destroyed") <=> (destructs'[o] = 1)]_vars

\* handle A, copy to B, destroy A, destroy B: the payload is gone, destroyed
\* once, while another payload is still shared by two handles
C1_Witness ==
  \E o \in Obj, q \in Obj :
     /\ obj_state[o] = "destroyed" /\ destructs[o] = 1 /\ ref_count_[o] = 0
     /\ HandlesOn(o) = {}
     /\ ref_count_[q] = 2

\* C3: every owning handle is null or points at a live payload, and the count
\* of a payload that has had its first handle equals the number of non-null
\* handles that point at it.
C3_HandleInvariant ==
  /\ \A h \in Handles : ptr_[h] = Null \/ obj_state[ptr_[h]] = "owned"
  /\ \A o \in Obj : obj_state[o] \in {"owned", "destroyed"}
                      => ref_count_[o] = Cardinality(HandlesOn(o))

\* two handles share one payload, a third is null after a release that
\* destroyed another payload
C3_Witness ==
  \E o \in Obj, q \in Obj, h \in Handles :
     /\ Cardinality(HandlesOn(o)) = 2 /\ ref_count_[o] = 2
     /\ ptr_[h] = Null
     /\ obj_state[q] = "destroyed"

\* ------------------------------------------------------------------ C2

TS_AllReleased == \A t \in Threads : ts_held[t] = 0 /\ ts_pc[t] = "idle"

\* C2: when threads concurrently release the references of one thread-safe
\* payload, in every interleaving a Release() returns true exactly when its
\* decrement takes the count to zero, at most one call ever does, once all
\* references are released exactly one has and Traits::Destruct has run
\* exactly once, and the count is not touched after the true return.
C2_ExactlyOneObservesZero ==
  [][/\ (ts_true_returns' = ts_true_returns + 1)
          <=> (ts_ref_count # 0 /\ ts_ref_count' = 0)
     /\ ts_true_returns' \in {ts_true_returns, ts_true_returns + 1}
     /\ ts_true_returns' <= 1
     /\ ts_destructs' <= ts_true_returns'
     /\ TS_AllReleased' => (ts_true_returns' = 1 /\ ts_destructs' = 1)
     /\ ts_true_returns >= 1 => ts_ref_count' = ts_ref_count]_vars

\* two threads are inside Release() at once: one was told true, the other
\* false, and the destruction has not yet run
C2_Witness ==
  \E t \in Threads, u \in Threads :
     /\ t # u
     /\ ts_pc[t] = "released" /\ ts_ret[t] = TRUE
     /\ ts_pc[u] = "released" /\ ts_ret[u] = FALSE
     /\ ts_destructs = 0

\* --------------------------------------------------------------- C5, C6

InCriticalSection == {t \in Threads : lk_pc[t] = "in"}

\* C5: at most one thread is inside the critical section (between a returned
\* Acquire or a successful Try and its Release) at any time, and it is the
\* thread the lock records.
C5_MutualExclusion ==
  /\ Cardinality(InCriticalSection) <= 1
  /\ \A t \in Threads : lk_pc[t] = "in" => lock_owner = t

\* one thread is inside while a second is blocked in Acquire() and a third
\* was refused by Try()
C5_Witness ==
  \E t \in Threads, u \in Threads, w \in Threads :
     /\ lk_pc[t] = "in"
     /\ lk_pc[u] = "blocked"
     /\ lk_pc[w] = "out" /\ try_rv[w] = "false"

\* C6: Try() never blocks: a thread that does not hold the lock can always
\* complete the call in one step; it returns false and leaves the lock as
\* it was while another thread holds it, and returns true and makes the
\* caller the holder when the lock is free.
C6_TryNeverBlocks ==
  /\ [](\A t \in Threads : lk_pc[t] = "out" => ENABLED TryCall(t))
  /\ [][\A t \in Threads : TryCall(t) =>
          IF lock_owner # Null
          THEN /\ try_rv'[t] = "false"
               /\ lock_owner' = lock_owner
               /\ lk_pc' = lk_pc
          ELSE /\ try_rv'[t] = "true"
               /\ lock_owner' = t
               /\ lk_pc'[t] = "in"]_vars

\* a thread whose Try() was refused has since succeeded, after the holder
\* released: it is inside and the former holder is outside
C6_Witness ==
  \E t \in Threads, u \in Threads :
     /\ t # u
     /\ lk_pc[t] = "in" /\ try_rv[t] = "true" /\ lock_owner = t
     /\ lk_pc[u] = "out" /\ try_rv[u] = "false"

\* ------------------------------------------------------------------ C4

\* a copy of handle s into handle d (construction or assignment)
CopyStep(s, d) ==
  \/ RepCopyCtor(s, d)
  \/ RepCopyAssign(s, d)
  \/ OnceCopyFromRepeating(s, d)
  \/ OnceCopyAssignRepeating(s, d)

\* a move of handle s into handle d (construction or assignment)
MoveStep(s, d) ==
  \/ OnceMoveAssign(s, d)
  \/ RepMoveAssign(s, d)
  \/ OnceMoveFromRepeating(s, d)
  \/ OnceMoveAssignRepeating(s, d)

\* C4 as stated: copying a non-null handle increases the referenced
\* object's count by exactly one and leaves both handles equal; moving
\* transfers the pointer, nulls the source and leaves the count unchanged.
C4_AsStated ==
  [][\A s \in CbHandles, d \in CbHandles :
       LET b == bind_state_[s] IN
       b # Null =>
         /\ CopyStep(s, d) =>
              /\ bs_ref_count'[b] = bs_ref_count[b] + 1
              /\ bind_state_'[s] = b
              /\ CallbackBase_EqualsInternal(bind_state_'[s], bind_state_'[d])
         /\ MoveStep(s, d) =>
              /\ bind_state_'[d] = b
              /\ bind_state_'[s] = Null
              /\ bs_ref_count'[b] = bs_ref_count[b]]_vars

\* C4 (amended): a copy leaves both handles equal and a move transfers the
\* pointer and nulls the source; the count of the referenced object goes up
\* by one on a copy and is unchanged on a move when the destination did not
\* already reference that object; when it did, the destination's old
\* reference is given up, so the count is unchanged by the copy and one
\* less after the move.
C4_CopyMoveLaws ==
  [][\A s \in CbHandles, d \in CbHandles :
       LET b == bind_state_[s]
           aliased == IF bind_state_[d] = bind_state_[s] THEN 1 ELSE 0 IN
       b # Null =>
         /\ CopyStep(s, d) =>
              /\ bs_ref_count'[b] = bs_ref_count[b] + 1 - aliased
              /\ bind_state_'[s] = b
              /\ CallbackBase_EqualsInternal(bind_state_'[s], bind_state_'[d])
         /\ MoveStep(s, d) =>
              /\ bind_state_'[d] = b
              /\ bind_state_'[s] = Null
              /\ bs_ref_count'[b] = bs_ref_count[b] - aliased]_vars

\* three handles share one bind state after two copies (count 3), and the
\* fourth handle has been moved from
C4_Witness ==
  \E b \in Binds, h \in CbHandles :
     /\ Cardinality(CbHandlesOn(b)) = 3 /\ bs_ref_count[b] = 3
     /\ bind_state_[h] = Null
     /\ \E q \in Binds : q # b /\ bs_state[q] = "destroyed"

\* ------------------------------------------------------------------ C7

\* C7: running a non-null single-invocation callback leaves that handle
\* null with its reference on the bind state released, and a null handle
\* cannot be run.
C7_OnceRunConsumes ==
  /\ [](\A o \in OnceH : bind_state_[o] = Null => ~ENABLED OnceRun(o))
  /\ [][\A o \in OnceH : OnceRun(o) =>
          LET b == bind_state_[o] IN
          /\ CallbackBase_is_null(bind_state_'[o])
          /\ bs_ref_count'[b] = bs_ref_count[b] - 1
          /\ {h \in CbHandles : bind_state_'[h] = b} = CbHandlesOn(b) \ {o}]_vars

\* a bind state bound once has been run once and is gone, and every
\* single-invocation handle is null again
C7_Witness ==
  \E b \in Binds :
     /\ bs_origin[b] = "once" /\ bs_runs[b] = 1 /\ bs_state[b] = "destroyed"
     /\ \A o \in OnceH : bind_state_[o] = Null

\* ------------------------------------------------------------------ C8

\* C8 as stated: a bind state referenced by a single-invocation handle is
\* referenced by no other non-null handle, and was executed at most once.
C8_AsStated ==
  \A o \in OnceH :
     bind_state_[o] # Null =>
       /\ \A h \in CbHandles : h # o => bind_state_[h] # bind_state_[o]
       /\ bs_runs[bind_state_[o]] <= 1

\* C8 (amended): a bind state made by a single-invocation bind is referenced
\* by at most one handle, a single-invocation one, and is executed at most
\* once; a single-invocation handle made from a repeatable callback holds
\* one counted reference on a bind state that the repeatable handles may
\* still reference and run.
C8_OnceBoundIsUnique ==
  /\ \A b \in Binds :
       bs_origin[b] = "once" =>
         /\ Cardinality(CbHandlesOn(b)) <= 1
         /\ CbHandlesOn(b) \subseteq OnceH
         /\ bs_runs[b] <= 1
  /\ \A o \in OnceH :
       bind_state_[o] # Null =>
         /\ bs_state[bind_state_[o]] = "live"
         /\ bs_ref_count[bind_state_[o]] = Cardinality(CbHandlesOn(bind_state_[o]))

\* a once-bound bind state has moved to the second single-invocation handle
\* while the first, now null, is the only other one
C8_Witness ==
  \E b \in Binds, o \in OnceH, p \in OnceH :
     /\ o # p
     /\ bs_origin[b] = "once" /\ bind_state_[p] = b /\ bind_state_[o] = Null
     /\ p # 1
     /\ \E q \in Binds : bs_origin[q] = "repeating" /\ bs_runs[q] = 2

\* ------------------------------------------------------------------ C9

\* C9: running a repeatable callback leaves every handle and every count as
\* it was, a non-null repeatable handle can always be run, and the bind
\* state behind repeatable handles is alive and counted once per handle
\* that shares it.
C9_RepeatingRunKeepsState ==
  /\ [](\A r \in RepH :
          bind_state_[r] # Null =>
            /\ ENABLED RepRun(r)
            /\ bs_state[bind_state_[r]] = "live"
            /\ bs_destructs[bind_state_[r]] = 0
            /\ bs_ref_count[bind_state_[r]]
                 = Cardinality(CbHandlesOn(bind_state_[r])))
  /\ [][\A r \in RepH : RepRun(r) =>
          /\ bind_state_' = bind_state_
          /\ bs_ref_count' = bs_ref_count
          /\ bs_state' = bs_state]_vars

\* two repeatable handles share a bind state that has run twice, next to a
\* live one that has never run
C9_Witness ==
  \E b \in Binds, q \in Binds :
     /\ RepH \subseteq CbHandlesOn(b)
     /\ bs_runs[b] = 2 /\ bs_state[b] = "live"
     /\ q # b /\ bs_state[q] = "live" /\ bs_runs[q] = 0

\* ----------------------------------------------------------------- C10

\* C10: a bind state is destroyed at most once, by its own destructor
\* thunk, and it is destroyed exactly while no callback handle references
\* it any more: never while a non-null handle still does.
C10_BindStateDestroyedOnce ==
  \A b \in Binds :
     /\ bs_destructs[b] <= 1
     /\ (bs_state[b] = "destroyed") <=> (bs_destructs[b] = 1)
     /\ bs_state[b] # "unbound" =>
          ((bs_destructs[b] = 1) <=> (CbHandlesOn(b) = {}))
     /\ bs_destructs[b] = 1 =>
          /\ bs_destroyed_by[b] = bs_destructor_[b]
          /\ bs_destroyed_by[b] = DestroyThunk(b)
     /\ bs_destructs[b] = 0 => bs_destroyed_by[b] = NoThunk

\* one bind state was destroyed without ever having run, another after its
\* one run
C10_Witness ==
  \E b \in Binds, q \in Binds :
     /\ bs_state[b] = "destroyed" /\ bs_runs[b] = 0
     /\ bs_state[q] = "destroyed" /\ bs_runs[q] = 1 /\ bs_origin[q] = "once"

\* ----------------------------------------------------------------- C11

\* C11: is_null() is true exactly when the handle references no bind state:
\* it is false for the handle a bind has just constructed; Reset() leaves
\* its handle null, takes exactly one off the count of the bind state the
\* handle referenced, and leaves every other handle as it was, so the other
\* handles on that bind state stay non-null.
C11_IsNullAndReset ==
  /\ [](\A h \in CbHandles :
          CallbackBase_is_null(bind_state_[h])
            <=> ~(\E b \in Binds : bind_state_[h] = b))
  /\ [][\A h \in CbHandles :
          /\ (BindOnce(h) \/ BindRepeating(h))
               => ~CallbackBase_is_null(bind_state_'[h])
          /\ CbReset(h) =>
               LET b == bind_state_[h] IN
               /\ CallbackBase_is_null(bind_state_'[h])
               /\ bs_ref_count'[b] = bs_ref_count[b] - 1
               /\ \A g \in CbHandles \ {h} :
                    /\ bind_state_'[g] = bind_state_[g]
                    /\ bind_state_[g] = b
                         => ~CallbackBase_is_null(bind_state_'[g])]_vars

\* of two repeatable handles that shared a bind state one is null again and
\* the other still references it, alone, while a single-invocation handle
\* holds a different bind state
C11_Witness ==
  \E b \in Binds, g \in RepH, h \in RepH, o \in OnceH :
     /\ h # g
     /\ bind_state_[h] = Null /\ bind_state_[g] = b
     /\ bs_ref_count[b] = 1 /\ bs_runs[b] = 0
     /\ bind_state_[o] # Null /\ bind_state_[o] # b

\* ----------------------------------------------------------------- C12

\* C12: two callback handles are equal exactly when they reference the
\* identical bind state: a copy equals its source, a callback bound
\* independently is unequal to every handle that was already bound, also to
\* one that captured the same function and argument values, a null handle
\* equals exactly the null handles, and Equals is reflexive and symmetric.
C12_EqualsIsIdentity ==
  /\ [](\A h \in CbHandles, g \in CbHandles :
          LET p == bind_state_[h]
              q == bind_state_[g] IN
          /\ CallbackBase_EqualsInternal(p, p)
          /\ CallbackBase_EqualsInternal(p, q) <=> CallbackBase_EqualsInternal(q, p)
          /\ CallbackBase_EqualsInternal(p, q)
               <=> (g \in CbHandlesOn(p) \/ (p = Null /\ q = Null))
          /\ p = Null => (CallbackBase_EqualsInternal(p, q) <=> q = Null))
  /\ [][\A h \in CbHandles, g \in CbHandles :
          /\ RepCopyCtor(g, h) =>
               CallbackBase_EqualsInternal(bind_state_'[h], bind_state_'[g])
          /\ (h # g /\ \E fn \in BoundValues : BindValue(h, fn)) =>
               ~CallbackBase_EqualsInternal(bind_state_'[h], bind_state_'[g])]_vars

\* two handles that are copies of each other next to a third that was bound
\* independently to the same function and argument values
C12_Witness ==
  \E h \in RepH, g \in RepH, o \in OnceH :
     /\ h # g
     /\ bind_state_[h] # Null /\ bind_state_[g] = bind_state_[h]
     /\ bind_state_[o] # Null /\ bind_state_[o] # bind_state_[h]
     /\ bs_functor_[bind_state_[o]] = bs_functor_[bind_state_[h]]

\* ----------------------------------------------------------------- C13

\* C13: IsCancelled() on a non-null callback returns what the bind state's
\* predicate returns; for a bind state made without a weak receiver it is
\* false in every state, whatever has become of the objects its arguments
\* point at; and the query changes no handle, no count and no bind state.
C13_IsCancelledDelegates ==
  /\ [](\A b \in Binds :
          (bs_state[b] # "unbound" /\ ~HasWeakReceiver(bs_functor_[b]))
            => ~CallbackBase_IsCancelled(b))
  /\ [][\A h \in CbHandles : IsCancelled(h) =>
          LET b == bind_state_[h] IN
          /\ is_cancelled_rv' =
               (IF HasWeakReceiver(bs_functor_[b]) /\ bs_invalidated[b]
                THEN "true" ELSE "false")
          /\ bind_state_' = bind_state_
          /\ bs_ref_count' = bs_ref_count
          /\ bs_state' = bs_state]_vars

\* the last query answered true, for a bind state whose weak receiver is
\* gone, while a handle references a bind state without a weak receiver
\* whose arguments have been invalidated as well
C13_Witness ==
  \E h \in CbHandles, g \in CbHandles :
     /\ bind_state_[h] # Null /\ bind_state_[g] # Null
     /\ HasWeakReceiver(bs_functor_[bind_state_[h]])
     /\ bs_invalidated[bind_state_[h]]
     /\ is_cancelled_rv = "true"
     /\ ~HasWeakReceiver(bs_functor_[bind_state_[g]])
     /\ bs_invalidated[bind_state_[g]]

\* ----------------------------------------------------------------- C14

\* C14 as stated: whatever callback the caller passed, no reply step of a
\* FileProxy operation ever calls Run on a null callback.
C14_AsStated == null_runs = 0

\* C14 (amended): the replies of Close, SetTimes, SetLength, Flush and Write
\* test is_null() and never call Run on a null callback: with a null
\* callback they only pass the file back.  The replies of CreateOrOpen,
\* CreateTemporary, GetInfo and Read require a non-null callback: given a
\* null one, a build with DCHECKs stops at the assertion without calling
\* Run, and a build without them calls Run on the null callback.  A non-null
\* callback is run exactly once by every reply.
C14_NullRunOnlyWhereUnchecked ==
  [][(\E ub \in BOOLEAN : Reply(ub)) =>
       IF ~CallbackBase_is_null(hp_callback)
       THEN /\ null_runs' = null_runs
            /\ hp_pc' = "fatal" \/ cb_runs' = cb_runs + 1
       ELSE /\ cb_runs' = cb_runs
            /\ IF hp_op \in StatusOps \cup {"Write"}
               THEN null_runs' = null_runs /\ hp_pc' \in {"done", "fatal"}
               ELSE IF dcheck_is_on
                    THEN null_runs' = null_runs /\ hp_pc' = "fatal"
                    ELSE null_runs' = null_runs + 1]_vars

\* a build with DCHECKs in which the file was opened with a callback that
\* ran, and the reply of the next operation, given a null callback, passed
\* the file back and stopped at its assertion
C14_Witness ==
  /\ dcheck_is_on
  /\ fp_calls = 2 /\ hp_pc = "fatal"
  /\ hp_op \in {"GetInfo", "Read"}
  /\ hp_callback = Null
  /\ hp_error_ = "FILE_OK" /\ fp_file_ = "open"
  /\ null_runs = 0 /\ cb_runs = 1

\* ----------------------------------------------------------------- C15

C16_InitialCountByPolicy ==
  /\ [](\A o \in Obj :
          obj_state[o] = "fresh" =>
            ref_count_[o] = (IF obj_tag[o] = "FromOne" THEN 1 ELSE 0))
  /\ [][\A h \in Handles, o \in Obj :
          /\ AdoptRef(h, o) =>
               (ref_count_' = ref_count_ /\ ptr_'[h] = o /\ ref_count_'[o] = 1)
          /\ Wrap(h, o) => (ptr_'[h] = o /\ ref_count_'[o] = 1)]_vars

\* a start-from-one payload with its adopting handle next to a
\* start-from-zero payload with its first handle, each counted once
C16_Witness ==
  \E o \in Obj, q \in Obj :
     /\ obj_tag[o] = "FromOne" /\ obj_state[o] = "owned"
     /\ obj_tag[q] = "FromZero" /\ obj_state[q] = "owned"
     /\ ref_count_[o] = 1 /\ ref_count_[q] = 1
     /\ Cardinality(HandlesOn(o)) = 1 /\ Cardinality(HandlesOn(q)) = 1

\* ------------------------------------------------------- C17, C18, C19

\* C17 as stated: AddRef() on a start-from-one payload that has not been
\* adopted trips the needs-adoption assertion, and AddRef() on an adopted
\* one does not.
C17_AsStated ==
  [][\A o \in Obj, q \in Sequences :
       (RawAddRef(o, q) /\ obj_tag[o] = "FromOne") =>
          (ref_fatal' <=> obj_state[o] = "fresh")]_vars

\* C18 as stated: a Release() issued when the count is already zero is
\* trapped as a contract violation.
C18_AsStated ==
  [][\A o \in Obj, q \in Sequences :
       (RawRelease(o, q) /\ ref_count_[o] = 0) => ref_fatal']_vars

\* C19 as stated: IsOnValidSequence() is true whenever the count is at most
\* one, and false when the count exceeds one and the caller runs on another
\* sequence than the one the earlier count updates were made on.
C19_AsStated ==
  \A o \in Obj, q \in Sequences :
     obj_state[o] \in {"fresh", "owned"} =>
       /\ ref_count_[o] \in {0, 1}
            => RefCountedBase_IsOnValidSequence(ref_count_[o], q, ref_last_seq[o])
       /\ (ref_count_[o] > 1 /\ ref_last_seq[o] # q)
            => ~RefCountedBase_IsOnValidSequence(ref_count_[o], q, ref_last_seq[o])

\* ----------------------------------------------------------------- C20

\* C20 as stated: a thread that calls Acquire(), or gets true from Try(),
\* on a Lock it already holds trips an assertion; the recursive acquisition
\* is never accepted silently.
C20_AsStated ==
  [][\A t \in Threads :
       (lock_owner = t /\ (RecAcquire(t) \/ (RecTry(t) /\ try_rv'[t] = "true")))
          => lk_fatal']_vars

\* ----------------------------------------------------------------- C21

\* C21: from the end of AutoLock's acquiring constructor to the start of
\* its destructor the constructing thread holds the lock (unless an
\* AutoUnlock nested in that scope has dropped it), and the destructor gives
\* it up; on each exit path the AutoLock has made exactly one Acquire() and
\* exactly one Release().
C21_AutoLockHoldsForScope ==
  /\ [](\A t \in Threads :
          /\ (TopIs(t, {"AutoLock"}) /\ al_pc[t] = "none")
               => (lock_owner = t /\ lk_pc[t] = "in")
          /\ \A i \in 1..Len(al_scope[t]) :
               al_scope[t][i].kind = "AutoLock"
                 => (al_scope[t][i].acquires = 1 /\ al_scope[t][i].releases = 0)
          /\ al_last[t].kind = "AutoLock"
               => (al_last[t].acquires = 1 /\ al_last[t].releases = 1))
  /\ [][\A t \in Threads, path \in ExitPaths :
          AutoLock_dtor_Run(t, path) => (lock_owner = t /\ lock_owner' # t)]_vars

\* a thread has left an AutoLock scope by an exception and the lock is
\* free, while another thread, which left its own scope by a return, is
\* blocked in the constructor of its next AutoLock
C21_Witness ==
  \E t \in Threads, u \in Threads :
     /\ al_last[t].kind = "AutoLock" /\ al_last[t].exit = "throw"
     /\ al_scope[t] = <<>> /\ lk_pc[t] = "out" /\ lock_owner = Null
     /\ al_last[u].kind = "AutoLock" /\ al_last[u].exit = "return"
     /\ al_pc[u] = "AutoLock" /\ lk_pc[u] = "blocked"

\* ----------------------------------------------------------------- C22

\* C22: an AutoUnlock constructed by the holder releases the lock for its
\* scope, so the thread does not hold it and a thread waiting for the lock
\* can take it; its destructor reacquires, so after the scope the thread
\* holds the lock again; at no time are two threads inside.
C22_AutoUnlockDropsAndRetakes ==
  /\ [](\A t \in Threads :
          /\ (TopIs(t, {"AutoUnlock"}) /\ al_pc[t] # "AutoLock")
               => (lock_owner # t /\ lk_pc[t] # "in")
          /\ (TopIs(t, {"AutoUnlock"}) /\ lock_owner = Null)
               => \A u \in Threads :
                    lk_pc[u] = "blocked" => ENABLED Helper_AcquireReturn(u)
          /\ lk_pc[t] = "in" => lock_owner = t)
  /\ [](Cardinality(InCriticalSection) <= 1)
  /\ [][\A t \in Threads :
          /\ AutoUnlock_ctor_Run(t) => (lock_owner = t /\ lock_owner' = Null)
          /\ (Helper_AcquireReturn(t) /\ al_pc[t] = "~AutoUnlock")
               => /\ lock_owner' = t
                  /\ al_scope'[t] = Pop(t)
                  /\ TopIs(t, {"AutoUnlock"})]_vars

\* a thread is back in its AutoLock scope, holding the lock, after an
\* AutoUnlock scope during which another thread held the lock and left
C22_Witness ==
  \E t \in Threads, u \in Threads :
     /\ t # u
     /\ al_scope[t] = <<Helper("AutoLock", 1, 0)>> /\ lock_owner = t
     /\ al_last[u].kind = "AutoLock" /\ al_scope[u] = <<>>
     /\ al_last[t] = NoHelper

\* ----------------------------------------------------------------- C23

\* C23: Acquire() returns only with the lock obtained: the one way out of
\* a blocked Acquire() is to become the holder of a lock that was free, so a
\* thread stays blocked while another thread holds the lock; under fair
\* scheduling, with every holder calling Release(), a blocked thread
\* eventually returns from Acquire().
C23_AcquireBlocksUntilObtained ==
  /\ [][\A t \in Threads :
          lk_pc[t] = "blocked" =>
            /\ lk_pc'[t] \in {"blocked", "in"}
            /\ lk_pc'[t] = "in" => (lock_owner = Null /\ lock_owner' = t)
            /\ lock_owner # Null => lk_pc'[t] = "blocked"]_vars
  /\ [](\A t \in Threads :
          (lk_pc[t] = "blocked" /\ lock_owner # Null)
             => ~ENABLED AcquireReturn(t))
  /\ \A t \in Threads : (lk_pc[t] = "blocked") ~> (lk_pc[t] = "in")

\* a thread that waited in Acquire() is inside, the lock is its own, and
\* the two other threads are waiting in Acquire()
C23_Witness ==
  \E t \in Threads :
     /\ lk_pc[t] = "in" /\ try_rv[t] = "none" /\ lock_owner = t
     /\ \A u \in Threads \ {t} : lk_pc[u] = "blocked"

\* ----------------------------------------------------------------- C24

\* C24: the first GetNext() returns 0 and each later one a value one
\* greater; whatever the interleaving of the calling threads, no value is
\* returned twice and the values returned by n calls are exactly 0 .. n-1.
C24_GetNextIsDense ==
  /\ \A i \in 1..Len(sn_returned) : sn_returned[i] = i - 1
  /\ {sn_returned[i] : i \in 1..Len(sn_returned)} = 0..(Len(sn_returned) - 1)
  /\ \A t \in Threads, u \in Threads :
       (t # u /\ sn_ret[t] # NoValue) => sn_ret[t] # sn_ret[u]
  /\ seq_ = Len(sn_returned)

\* every call has returned: two threads hold the first two values and the
\* third thread, which made the other calls, holds the last
C24_Witness ==
  /\ Len(sn_returned) = MaxCalls
  /\ \E t \in Threads, u \in Threads :
       /\ sn_ret[t] = <<0>> /\ sn_ret[u] = <<1>>
       /\ \E w \in Threads \ {t, u} : sn_ret[w] = <<MaxCalls - 1>>

\* ----------------------------------------------------------------- C25

\* the iterators bound to the list
BoundIters == {k \in IterIds : ol_it[k].live /\ ol_it[k].list_}

\* C25: while an iterator is live, RemoveObserver and Clear neither erase
\* nor shift: the vector keeps its length and every slot keeps its observer
\* or becomes null, and no change of the list moves an observer to another
\* slot; so the index of a live iterator never refers to another observer
\* than before and never exceeds the size of the vector.
C25_StableWhileIterating ==
  /\ [](\A k \in BoundIters : ol_it[k].index_ <= Len(observers_))
  /\ [][live_iterator_count_ > 0 =>
          /\ (Clear \/ \E o \in Observers : RemoveObserver(o))
               => Len(observers_') = Len(observers_)
          /\ live_iterator_count_' > 0 =>
               /\ Len(observers_') >= Len(observers_)
               /\ \A i \in 1..Len(observers_) :
                    observers_'[i] \in {observers_[i], Null}]_vars

\* inside a loop body: a slot before the iterator was nulled, the iterator
\* stands on an observer and another observer follows it
C25_Witness ==
  /\ Len(ol_pass) = 1 /\ TopPass.pc = "body"
  /\ LET i == ol_it[1].index_ IN
       /\ i + 1 < Len(observers_)
       /\ observers_[i + 1] # Null /\ observers_[i + 2] # Null
       /\ \E j \in 1..i : observers_[j] = Null

\* ----------------------------------------------------------------- C26

\* C26: under ALL a loop that ends has visited every observer appended
\* during it that is still in the list; under EXISTING_ONLY a loop never
\* visits a slot at or beyond the size the vector had when the loop began,
\* and it visits every observer that was in the list when it began and
\* still is, so an observer added during one loop is visited by a loop
\* begun later.
C26_PolicyDecidesLateObservers ==
  /\ [](ol_policy = "EXISTING_ONLY" =>
          \A d \in 1..Len(ol_pass) :
             \A i \in VisitedSlots(ol_pass[d]) : i < ol_pass[d].size0)
  /\ [][PassEnd =>
          \A i \in 0..(Len(observers_) - 1) :
             (/\ observers_[i + 1] # Null
              /\ ol_policy = "ALL" \/ i < TopPass.size0)
               => i \in VisitedSlots(TopPass)]_vars

\* under EXISTING_ONLY an observer appended during the outer loop has been
\* visited by the inner loop, which began after it was added
C26_Witness ==
  /\ ol_policy = "EXISTING_ONLY"
  /\ Len(ol_pass) = 2
  /\ \E i \in VisitedSlots(ol_pass[2]) :
       /\ i >= ol_pass[1].size0
       /\ observers_[i + 1] # Null

\* ----------------------------------------------------------------- C27

\* C27: no observer is in the vector twice; AddObserver of an observer
\* already in the list and RemoveObserver of one that is not leave the
\* vector as it was, and after RemoveObserver(o) HasObserver(o) is false.
C27_NoDuplicateObserver ==
  /\ [](\A i \in 1..Len(observers_), j \in 1..Len(observers_) :
          (i # j /\ observers_[i] # Null) => observers_[i] # observers_[j])
  /\ [][\A o \in Observers :
          /\ (AddObserver(o) /\ HasObserver(observers_, o))
               => observers_' = observers_
          /\ (RemoveObserver(o) /\ ~HasObserver(observers_, o))
               => observers_' = observers_
          /\ RemoveObserver(o) => ~HasObserver(observers_', o)]_vars

\* during a loop, every observer is in the vector once, one of them after
\* the nulled slot it was removed from
C27_Witness ==
  /\ Len(ol_pass) > 0
  /\ \A o \in Observers : HasObserver(observers_, o)
  /\ observers_[1] = Null
  /\ Len(observers_) = NObservers + 1

\* ----------------------------------------------------------------- C28

\* C28: in a loop over the list, a slot nulled before the iterator reached
\* it is not visited, no visit yields a null observer, the visits go in the
\* order of the vector (insertion order), and when the loop ends every
\* observer that was in the list when it began and was not removed has been
\* visited exactly once.
C28_PassVisitsEachOnce ==
  /\ [](\A d \in 1..Len(ol_pass) :
          LET p == ol_pass[d] IN
          /\ p.skipped \cap VisitedSlots(p) = {}
          /\ Null \notin VisitedObs(p)
          /\ \A i \in 1..Len(p.visited), j \in 1..Len(p.visited) :
               i < j => p.visited[i].index < p.visited[j].index)
  /\ [][PassEnd =>
          \A i \in 0..(TopPass.size0 - 1) :
             observers_[i + 1] # Null =>
               Cardinality({n \in 1..Len(TopPass.visited) :
                              TopPass.visited[n] =
                                [index |-> i, obs |-> observers_[i + 1]]}) = 1]_vars

\* a loop is about to end: it skipped a slot that was nulled before it got
\* there, visited two observers, and the first of them has removed itself
C28_Witness ==
  /\ Len(ol_pass) = 1 /\ TopPass.pc = "at"
  /\ is_end(ol_it[1], observers_)
  /\ TopPass.skipped # {}
  /\ Len(TopPass.visited) = 2
  /\ observers_[TopPass.visited[1].index + 1] = Null
  /\ observers_[TopPass.visited[2].index + 1] # Null

\* ----------------------------------------------------------------- C29

\* C29: live_iterator_count_ is the number of live iterators bound to the
\* list, hence never negative, through construction, copy, assignment and
\* destruction; when it is zero the vector holds no null, and nulls leave
\* the vector only in the step that destroys the last live iterator.
C29_CountMatchesLiveIterators ==
  /\ [](/\ live_iterator_count_ = Cardinality(BoundIters)
        /\ live_iterator_count_ >= 0
        /\ live_iterator_count_ = 0 => Null \notin Range(observers_))
  /\ [][(Null \in Range(observers_) /\ Null \notin Range(observers_'))
          => (live_iterator_count_ = 1 /\ live_iterator_count_' = 0)]_vars

\* an iterator and its copy are live, past a slot that was nulled under
\* them, while the vector still holds an observer
C29_Witness ==
  /\ live_iterator_count_ = 2
  /\ ol_it[1].index_ = ol_it[2].index_ /\ ol_it[1].index_ > 0
  /\ observers_[1] = Null
  /\ \E o \in Observers : HasObserver(observers_, o)

\* ----------------------------------------------------------------- C30

\* what Get() returns when every closure so far was run youngest first:
\* the runner of the youngest outstanding override, else the original
ExpectedRunner ==
  IF Len(tt_closures) = 0 THEN OriginalRunner
  ELSE tt_closures[Len(tt_closures)].installed

\* the parts of C30 on overrides and on releases in LIFO order: after
\* OverrideForTesting(r) Get() returns r; while closures are run youngest
\* first Get() returns the runner of the youngest outstanding override, so
\* each run brings back the runner that was current before its override,
\* and the original runner once all are run, and no assertion fails.
C30_LifoPart ==
  /\ []((tt_lifo /\ ~tt_fatal) => ThreadTaskRunnerHandle_Get = ExpectedRunner)
  /\ [](tt_lifo => ~tt_fatal)
  /\ [][/\ \A r \in Runners : Override(r) => ThreadTaskRunnerHandle_Get' = r
        /\ (tt_lifo /\ RunClosure(Len(tt_closures)))
             => ThreadTaskRunnerHandle_Get' =
                  tt_closures[Len(tt_closures)].before]_vars

\* C30 as stated: the LIFO part, and running a closure other than the
\* youngest outstanding one trips the assertion.
C30_AsStated ==
  /\ C30_LifoPart
  /\ [][\A i \in 1..MaxOverrides :
          (RunClosure(i) /\ i # Len(tt_closures)) => tt_fatal']_vars

\* C30 (amended): the LIFO part, and a closure run out of order trips the
\* assertion only in a build with DCHECKs and only when the runner it
\* installed is not the one Get() returns at that moment; the closure of an
\* override with the runner that is current anyway, and any closure in a
\* build without DCHECKs, runs without an assertion, and the handle then
\* takes the runner that closure was to restore.
C30_OverrideRestores ==
  /\ C30_LifoPart
  /\ [][\A i \in 1..MaxOverrides :
          RunClosure(i) =>
            /\ tt_fatal' <=>
                 (dcheck_is_on /\ tt_closures[i].installed # task_runner_)
            /\ ~tt_fatal' => ThreadTaskRunnerHandle_Get' = tt_closures[i].before
            /\ tt_fatal' => i # Len(tt_closures) \/ ~tt_lifo]_vars

\* in a build with DCHECKs: two overrides with different runners were made,
\* the older closure was run first and the assertion failed
C30_Witness ==
  /\ dcheck_is_on /\ tt_fatal /\ ~tt_lifo
  /\ Len(tt_closures) = 1
  /\ tt_closures[1].installed # tt_closures[1].before
  /\ task_runner_ = tt_closures[1].installed

\* ----------------------------------------------------------------- C31

\* IsSet() is true on a thread exactly while a handle exists on it
C31_IsSetIffHandle ==
  \A t \in TlThreads :
    ThreadTaskRunnerHandle_IsSet(thread_task_runner_tls[t]) <=> TtrhOn(t) # {}

\* at most one handle exists on a thread
C31_AtMostOne == \A t \in TlThreads : Cardinality(TtrhOn(t)) <= 1

\* Get() is answered only while IsSet() is true, with the runner of the
\* handle the thread-local pointer holds; otherwise the CHECK fails
C31_GetPart ==
  [][\A t \in TlThreads :
       TlGet(t) =>
         IF ThreadTaskRunnerHandle_IsSet(thread_task_runner_tls[t])
           THEN /\ ~tl_fatal'
                /\ tl_last'.value =
                     <<tl_handles[thread_task_runner_tls[t]].task_runner_>>
           ELSE tl_fatal' /\ tl_last' = tl_last]_vars

\* OverrideForTesting on a thread without a handle makes one, and IsSet()
\* is true; when its closure runs the handle is destroyed and IsSet() is
\* false
C31_ReleasePart ==
  [][\A t \in TlThreads :
       /\ \A r \in TlRunners :
            (TlOverride(t, r)
               /\ ~ThreadTaskRunnerHandle_IsSet(thread_task_runner_tls[t]))
            => /\ ThreadTaskRunnerHandle_IsSet(thread_task_runner_tls'[t])
               /\ tl_handles'[thread_task_runner_tls'[t]] =
                    Ttrh(t, r, "closure")
       /\ \A i \in 1..MaxScoped :
            (TlRunRelease(t, i) /\ ~tl_fatal')
            => /\ tl_handles'[tl_closures[t][i].ttrh] = NoTtrh
               /\ ~ThreadTaskRunnerHandle_IsSet(thread_task_runner_tls'[t])]_vars

\* C31 as stated: IsSet() follows the existence of a handle on the thread,
\* there is at most one handle per thread, Get() needs IsSet(), and the
\* handle of an override on a thread without one goes with its closure.
C31_AsStated ==
  /\ [](C31_IsSetIffHandle /\ C31_AtMostOne)
  /\ C31_GetPart
  /\ C31_ReleasePart

\* C31 (amended): while IsSet() is true on a thread the thread-local
\* pointer holds a handle that exists on that thread; in a build with
\* DCHECKs IsSet() is true exactly while a handle exists on the thread and
\* there is at most one, a second construction being fatal; in a build
\* without DCHECKs a second handle can be constructed on a thread, and once
\* two exist destroying either makes IsSet() false while the other exists.
\* Get() is answered only while IsSet() is true, and the handle of an
\* override on a thread without one is destroyed when its closure runs,
\* after which IsSet() is false.
C31_IsSetFollowsTlsPointer ==
  /\ [](\A t \in TlThreads :
          ThreadTaskRunnerHandle_IsSet(thread_task_runner_tls[t])
            => thread_task_runner_tls[t] \in TtrhOn(t))
  /\ [](dcheck_is_on => (C31_IsSetIffHandle /\ C31_AtMostOne))
  /\ [][\A t \in TlThreads, h \in TtrhIds, r \in TlRunners :
          (TlConstruct(t, h, r) /\ TtrhOn(t) # {}) => (tl_fatal' <=> dcheck_is_on)]_vars
  /\ [][\A t \in TlThreads :
          (Cardinality(TtrhOn(t)) = 2 /\ Cardinality(TtrhOn(t)') = 1)
            => ~ThreadTaskRunnerHandle_IsSet(thread_task_runner_tls'[t])]_vars
  /\ C31_GetPart
  /\ C31_ReleasePart

\* thread 1 overrode without a handle and the closure has just run: the
\* handle is gone and IsSet() is false again, while thread 2 has a handle
C31_Witness ==
  /\ tl_last = TlCall(1, "release", NoValue) /\ ~TlStopped
  /\ TtrhOn(1) = {} /\ TtrhOn(2) # {}
  /\ ~ThreadTaskRunnerHandle_IsSet(thread_task_runner_tls[1])

\* ----------------------------------------------------------------- C32

\* the step in which an operation is posted, and the one in which its
\* reply runs
FpPostStep == hp_pc # "posted" /\ hp_pc' = "posted"
FpReplyStep == hp_pc = "worked" /\ hp_pc' # "worked"

\* C32: an operation posted on an open file moves the file out of the proxy
\* into the helper, so IsValid() is false while it is in flight; the reply,
\* if the proxy still exists, hands the helper's file back to the proxy
\* before the caller's callback runs (the callback finds it there); and the
\* callback runs only in the reply, after the work, once.
C32_FileTravelsWithOperation ==
  /\ []((fp_alive /\ hp_pc \in {"posted", "worked"} /\ hp_op \in OpenFileOps)
          => fp_file_ = "invalid")
  /\ [][(FpPostStep /\ hp_op' \in OpenFileOps /\ fp_file_ = "open")
          => (fp_file_' = "invalid" /\ hp_file_' = "open")]_vars
  /\ [][(FpReplyStep /\ hp_op \in OpenFileOps /\ fp_alive)
          => /\ fp_file_' = hp_file_ /\ hp_file_' = "invalid"
             /\ cb_runs' # cb_runs => cb_saw' = hp_file_]_vars
  /\ [][cb_runs' # cb_runs
          => /\ cb_runs' = cb_runs + 1
             /\ FpReplyStep /\ hp_pc' = "done"
             /\ hp_callback # Null]_vars

\* a Read on an open file was answered: the callback ran once and found the
\* open file back in the proxy
C32_Witness ==
  /\ fp_alive /\ hp_op = "Read" /\ hp_pc = "done"
  /\ cb_runs = 1 /\ cb_saw = "open" /\ fp_file_ = "open"

\* ----------------------------------------------------------------- C33

\* the open files the proxy and the helper in flight hold
FpHeld ==
  (IF fp_file_ = "open" THEN 1 ELSE 0) + (IF hp_file_ = "open" THEN 1 ELSE 0)
FpOpen(file) == IF file = "open" THEN 1 ELSE 0

\* C33: the destructor of a proxy that holds a valid file posts a
\* FileDeleter task for it; a reply that runs after the proxy was destroyed
\* leaves the proxy alone and, unless an assertion on its callback stops the
\* process first, posts a FileDeleter task for the helper's file if it is
\* valid; and once the proxy is going or gone no open file leaves
\* the proxy or the helper other than into a FileDeleter task or through the
\* work of Close on the task runner.
C33_FileOutlivesProxySafely ==
  /\ [][(fp_alive /\ ~fp_alive')
          => /\ deleter_posts' = deleter_posts + FpOpen(fp_file_)
             /\ fp_file_' = "invalid" /\ hp_file_' = hp_file_]_vars
  /\ [][(FpReplyStep /\ ~fp_alive)
          => /\ fp_file_' = fp_file_ /\ ~fp_alive'
             /\ hp_pc' # "fatal"
                  => /\ deleter_posts' = deleter_posts + FpOpen(hp_file_)
                     /\ hp_file_' = "invalid"]_vars
  /\ [][(~fp_alive' /\ ~(hp_op = "Close" /\ hp_pc = "posted"))
          => FpHeld' + deleter_posts' >= FpHeld + deleter_posts]_vars

\* the proxy was destroyed while its file was with the helper of a Read; the
\* reply ran without the proxy and posted the FileDeleter task
C33_Witness ==
  /\ ~fp_alive /\ hp_op = "Read" /\ hp_pc = "done"
  /\ cb_saw = "gone" /\ deleter_posts = 1
  /\ hp_file_ = "invalid" /\ fp_file_ = "invalid"

\* ----------------------------------------------------------------- C34

\* the call returned false and left the proxy, the helper, the callbacks and
\* the posted tasks as they were
FpRefused ==
  /\ fp_rv' = "false"
  /\ UNCHANGED <<fp_alive, fp_file_, hp_op, hp_pc, hp_file_, hp_error_,
                 hp_callback, cb_runs, cb_arg, cb_saw, null_runs,
                 deleter_posts>>

\* C34: Read with bytes_to_read < 0, and Write with bytes_to_write <= 0 or a
\* null buffer, return false once past the assertion at their entry: no
\* helper is made, no task is posted, no callback is kept or run, and the
\* proxy's file stays where it is.
C34_BadArgumentsRefused ==
  [][\A cb \in CallerCallbacks :
       /\ \A n \in {-1, 0, 1} :
            (FileProxy_Read(n, cb) /\ n < 0 /\ hp_pc' # "fatal") => FpRefused
       /\ \A buffer \in {"nullptr", "buf"}, n \in {0, 1} :
            (FileProxy_Write(buffer, n, cb)
               /\ (n <= 0 \/ buffer = "nullptr") /\ hp_pc' # "fatal")
            => FpRefused]_vars

\* a file was opened and its callback ran; the next call, a Read or Write
\* with bad arguments, returned false and the proxy still has its file
C34_Witness ==
  /\ fp_rv = "false" /\ fp_calls = 2
  /\ fp_alive /\ fp_file_ = "open"
  /\ hp_op = "CreateOrOpen" /\ hp_pc = "done" /\ cb_runs = 1

\* ----------------------------------------------------------------- C35

\* C35: Initialize with a path that references a parent does not call
\* DoInitialize and leaves the platform file as it was, so that an invalid
\* File remains invalid, and error_details() is FILE_ERROR_ACCESS_DENIED,
\* whatever the flags; File(path, flags) with such a path gives an invalid
\* File with that error.
C35_ParentPathDenied ==
  /\ [][(fi_args'.call = "Initialize"
           /\ FilePath_ReferencesParent(fi_args'.path))
          => /\ ~fi_do_initialize'
             /\ fi_file_' = fi_file_
             /\ fi_file_ = "invalid" => fi_file_' = "invalid"
             /\ fi_tracing_path_' = fi_tracing_path_
             /\ fi_error_details_' = "FILE_ERROR_ACCESS_DENIED"
             /\ ~fi_fatal']_vars
  /\ []((fi_args.call = "File" /\ FilePath_ReferencesParent(fi_args.path))
          => /\ ~fi_do_initialize
             /\ fi_file_ = "invalid"
             /\ fi_error_details_ = "FILE_ERROR_ACCESS_DENIED"
             /\ ~fi_fatal)

\* a File that CreateFile failed to open, with its path traced, was then
\* initialized with every flag set and a path that goes through a parent:
\* DoInitialize did not run, the File is still invalid and reports
\* FILE_ERROR_ACCESS_DENIED
C35_Witness ==
  /\ fi_args = FiCall("Initialize", <<"a", "..">>, MaxInt32)
  /\ ~fi_do_initialize
  /\ fi_file_ = "invalid"
  /\ fi_tracing_path_ = <<(<<"a">>)>>
  /\ fi_error_details_ = "FILE_ERROR_ACCESS_DENIED"
  /\ fi_last_error = "ERROR_ACCESS_DENIED"

=============================================================================
